---- MODULE Spec2Model ----
(***************************************************************************)
(* Governance of automated remediation actions (module3 of the payment     *)
(* operations agent): SafetyGuardrails, ActionExecutor, RollbackManager,   *)
(* OutcomeTracker, LearningSystem and the PaymentOpsAgent.handle_decision  *)
(* pipeline that drives them.                                              *)
(*                                                                         *)
(* Units.  Time is counted in minutes.  Rates (success_rate, error_rate,   *)
(* timeout_rate) are per-mille integers (0.82 is 820), confidence is a     *)
(* percentage (0.6 is 60), improvement is in hundredths of a percent       *)
(* (-5.0 % is -500).                                                       *)
(*                                                                         *)
(* Scheduling.  The components are asyncio coroutines on one event loop.   *)
(* A coroutine runs without interruption up to an await that really        *)
(* suspends; the only such awaits are the two asyncio.sleep calls          *)
(* (rollback_manager.py:51, action_executor.py:263).  sleepq holds the     *)
(* sleeping coroutines in the order in which they went to sleep; the loop  *)
(* resumes the one with the earliest deadline, the earlier sleeper first   *)
(* on a tie.                                                               *)
(***************************************************************************)
EXTENDS Integers, Sequences, FiniteSets, TLC

VARIABLES
    now,            \* the clock (datetime.utcnow / loop.time), in minutes
    guard_active,   \* SafetyGuardrails.active_actions: a list of entries
    exec_active,    \* ActionExecutor.active_actions: a dict keyed by action_id
    restores,       \* per action id, how often rollback_action restored its baseline
    sleepq,         \* coroutines suspended in asyncio.sleep, in suspension order
    lc,             \* per handle_decision call: its position and its locals
    ret,            \* the value returned by the most recent component call
    ncalls,         \* how many direct calls of the components were made
    outcomes,       \* OutcomeTracker.outcomes: the list of outcome records
    pattern_confidences,    \* LearningSystem.pattern_confidences: a dict
    action_effectiveness,   \* LearningSystem.action_effectiveness: a dict of lists
    collection      \* LearningSystem.collection: the knowledge store, if any

\* The state of the outcome tracker and of the learning system.
learning == <<outcomes, pattern_confidences, action_effectiveness, collection>>

vars == <<now, guard_active, exec_active, restores, sleepq, lc, ret, ncalls,
          outcomes, pattern_confidences, action_effectiveness, collection>>

(***************************************************************************)
(* Bounds of the model.                                                    *)
(***************************************************************************)
NumLifecycles == 4
MaxTime == 15
TickMinutes == 5
MaxRestores == 2
MaxCalls == 4

(***************************************************************************)
(* Program constants.                                                      *)
(***************************************************************************)
MAX_TRAFFIC_REDUCTION_PCT == 50
MAX_RETRY_INCREASE == 3
MIN_CONFIDENCE_THRESHOLD == 60
MAX_CONCURRENT_ACTIONS == 3
HIGH_RISK_REQUIRES_HUMAN == TRUE
MIN_DURATION_MINUTES == 5
MAX_DURATION_MINUTES == 180
DEGRADATION_THRESHOLD_PCT == -500
MIN_IMPROVEMENT_THRESHOLD_PCT == 200
OBSERVATION_WINDOW_MIN == 10
MAX_ERROR_RATE == 150
MAX_P95_LATENCY_MS == 5000
MAX_TIMEOUT_RATE == 100

None == "None"

\* dict.get(key, default)
Get(d, key, default) == IF key \in DOMAIN d THEN d[key] ELSE default

\* The empty dict.
EmptyDict == <<>>

\* d[key] = value on a dict.
Put(d, key, value) ==
    [k \in (DOMAIN d) \cup {key} |-> IF k = key THEN value ELSE d[k]]

Min(a, b) == IF a <= b THEN a ELSE b

Max(a, b) == IF a >= b THEN a ELSE b

(***************************************************************************)
(* Decisions.                                                              *)
(***************************************************************************)
IdOrder == <<"a1", "a2", "a3", "a4">>

ActionIds == {IdOrder[i] : i \in 1..Len(IdOrder)}

Decision(id, type, dim, val, params, dur, exp, risk, conf) ==
    [action_id |-> id, action_type |-> type, target_dimension |-> dim,
     target_value |-> val, parameters |-> params, duration_minutes |-> dur,
     expected_improvement_pct |-> exp, estimated_risk_level |-> risk,
     confidence |-> conf]

\* The decision run_agent_loop builds (main.py:77-92), with the given id,
\* duration and confidence.
RoutingDecision(id, dur, conf) ==
    Decision(id, "adjust_routing", "issuer_bank", "HDFC",
             [from_gateway |-> "gateway_a", to_gateway |-> "gateway_b", shift_pct |-> 30],
             dur, 800, "medium", conf)

\* The decisions handed to handle_decision: durations on both sides of the
\* observation window, one decision below the confidence threshold.
PipelineDecisions ==
    {RoutingDecision(id, dur, 75) : id \in ActionIds, dur \in {5, 15}}
        \cup {RoutingDecision("a1", 15, 50)}

(***************************************************************************)
(* SafetyGuardrails                                                        *)
(***************************************************************************)
\* Mutant of DurationViolated: the bounds themselves are refused.
DurationViolated_BoundsRefused(action) ==
    \/ action.duration_minutes <= MIN_DURATION_MINUTES
    \/ action.duration_minutes >= MAX_DURATION_MINUTES

\* The duration test that closes _validate_action_parameters.
DurationViolated(action) ==
    \/ action.duration_minutes < MIN_DURATION_MINUTES
    \/ action.duration_minutes > MAX_DURATION_MINUTES

\* Mutant of _validate_action_parameters: the traffic reduction limit itself
\* is refused (>= instead of >).
_validate_action_parameters_LimitRefused(action) ==
    LET p == action.parameters
        byType ==
            IF action.action_type = "rate_limit"
            THEN IF Get(p, "reduction_pct", 0) >= MAX_TRAFFIC_REDUCTION_PCT
                 THEN <<"traffic_reduction">> ELSE <<>>
            ELSE IF action.action_type = "modify_retry_config"
            THEN LET current_retries == Get(p, "current_max_retries", 1)
                     new_retries == Get(p, "new_max_retries", 1)
                 IN IF current_retries > 0
                        /\ new_retries > MAX_RETRY_INCREASE * current_retries
                    THEN <<"retry_increase">> ELSE <<>>
            ELSE IF action.action_type = "circuit_break"
            THEN IF action.estimated_risk_level # "high"
                 THEN <<"circuit_break_not_high_risk">> ELSE <<>>
            ELSE <<>>
        duration == IF DurationViolated(action) THEN <<"duration">> ELSE <<>>
    IN byType \o duration

_validate_action_parameters(action) ==
    LET p == action.parameters
        byType ==
            IF action.action_type = "rate_limit"
            THEN IF Get(p, "reduction_pct", 0) > MAX_TRAFFIC_REDUCTION_PCT
                 THEN <<"traffic_reduction">> ELSE <<>>
            ELSE IF action.action_type = "modify_retry_config"
            THEN LET current_retries == Get(p, "current_max_retries", 1)
                     new_retries == Get(p, "new_max_retries", 1)
                 IN IF current_retries > 0
                        /\ new_retries > MAX_RETRY_INCREASE * current_retries
                    THEN <<"retry_increase">> ELSE <<>>
            ELSE IF action.action_type = "circuit_break"
            THEN IF action.estimated_risk_level # "high"
                 THEN <<"circuit_break_not_high_risk">> ELSE <<>>
            ELSE <<>>
        duration == IF DurationViolated(action) THEN <<"duration">> ELSE <<>>
    IN byType \o duration

critical_issuers == {"CHASE", "HDFC", "ICICI"}

critical_methods == {"card"}

\* Mutant of _check_critical_infrastructure: the payment method check is
\* missing.
_check_critical_infrastructure_IssuersOnly(action) ==
    IF action.target_dimension = "issuer_bank"
        /\ action.target_value \in critical_issuers
        /\ action.action_type = "circuit_break"
    THEN <<"critical_issuer">> ELSE <<>>

_check_critical_infrastructure(action) ==
    (IF action.target_dimension = "issuer_bank"
        /\ action.target_value \in critical_issuers
        /\ action.action_type = "circuit_break"
     THEN <<"critical_issuer">> ELSE <<>>)
    \o
    (IF action.target_dimension = "payment_method"
        /\ action.target_value \in critical_methods
        /\ action.action_type = "circuit_break"
     THEN <<"critical_payment_method">> ELSE <<>>)

\* Mutant of ConcurrencyViolated: the limit is compared with > instead of >=.
ConcurrencyViolated_OffByOne(registry) == Len(registry) > MAX_CONCURRENT_ACTIONS

\* Check 2 of validate_action.
ConcurrencyViolated(registry) == Len(registry) >= MAX_CONCURRENT_ACTIONS

\* Mutant of ConfidenceViolated: the confidence is rounded to one decimal
\* before it is compared.
ConfidenceViolated_Rounded(action) ==
    ((action.confidence + 5) \div 10) * 10 < MIN_CONFIDENCE_THRESHOLD

\* Check 1 of validate_action.
ConfidenceViolated(action) == action.confidence < MIN_CONFIDENCE_THRESHOLD

\* Mutant of HumanApprovalRequired: only a high-risk circuit break needs
\* approval.
HumanApprovalRequired_CircuitBreakOnly(action) ==
    /\ action.estimated_risk_level = "high"
    /\ HIGH_RISK_REQUIRES_HUMAN
    /\ action.action_type = "circuit_break"

\* Mutant of HumanApprovalRequired: HIGH_RISK_REQUIRES_HUMAN is read as off.
HumanApprovalRequired_Off(action) ==
    action.estimated_risk_level = "high" /\ ~HIGH_RISK_REQUIRES_HUMAN

\* Check 4 of validate_action.
HumanApprovalRequired(action) ==
    action.estimated_risk_level = "high" /\ HIGH_RISK_REQUIRES_HUMAN

\* Mutant of validate_action: the checks stop at the first violation.
validate_action_ShortCircuit(action, registry) ==
    LET violations ==
            (IF ConfidenceViolated(action) THEN <<"confidence">> ELSE <<>>)
            \o (IF ConcurrencyViolated(registry) THEN <<"concurrent_actions">> ELSE <<>>)
            \o _validate_action_parameters(action)
            \o (IF HumanApprovalRequired(action) THEN <<"human_approval">> ELSE <<>>)
            \o _check_critical_infrastructure(action)
        first == IF Len(violations) = 0 THEN violations ELSE <<violations[1]>>
    IN [is_valid |-> Len(first) = 0, violations |-> first]

\* validate_action on the registry content it reads: (is_valid, violations).
validate_action(action, registry) ==
    LET violations ==
            (IF ConfidenceViolated(action) THEN <<"confidence">> ELSE <<>>)
            \o (IF ConcurrencyViolated(registry) THEN <<"concurrent_actions">> ELSE <<>>)
            \o _validate_action_parameters(action)
            \o (IF HumanApprovalRequired(action) THEN <<"human_approval">> ELSE <<>>)
            \o _check_critical_infrastructure(action)
    IN [is_valid |-> Len(violations) = 0, violations |-> violations]

\* register_active_action: the registry after the call at time t.
register_active_action(registry, action, t) ==
    Append(registry,
           [action_id |-> action.action_id, action_type |-> action.action_type,
            started_at |-> t, expires_at |-> t + action.duration_minutes])

\* deregister_active_action: the registry without the entries of action_id.
deregister_active_action(registry, action_id) ==
    SelectSeq(registry, LAMBDA a : a.action_id # action_id)

\* cleanup_expired_actions: the registry without the entries expired at time t.
cleanup_expired_actions(registry, t) ==
    SelectSeq(registry, LAMBDA a : a.expires_at > t)

(***************************************************************************)
(* ActionExecutor                                                          *)
(***************************************************************************)
\* ActionExecutor.simulation_mode, as PaymentOpsAgent and the tests construct it.
simulation_mode == TRUE

ActionTypes ==
    {"adjust_routing", "modify_retry_config", "rate_limit", "circuit_break",
     "alert_merchant", "do_nothing"}

\* PaymentOpsAgent._get_system_state
_get_system_state ==
    [routing_config |-> [default_gateway |-> "gateway_a"],
     retry_config |-> [max_retries |-> 2, delay_ms |-> 1000],
     rate_limits |-> EmptyDict,
     circuit_breakers |-> EmptyDict]

_capture_state_snapshot(current_state, t) ==
    [timestamp |-> t,
     routing_config |-> Get(current_state, "routing_config", EmptyDict),
     retry_config |-> Get(current_state, "retry_config", EmptyDict),
     rate_limits |-> Get(current_state, "rate_limits", EmptyDict),
     circuit_breakers |-> Get(current_state, "circuit_breakers", EmptyDict)]

\* The dispatch of execute_action on action_type: the details the
\* _execute_* method returns.
ExecutionDetails(action) ==
    LET p == action.parameters
        t == action.action_type
    IN IF t = "adjust_routing"
       THEN IF simulation_mode
            THEN [simulated |-> TRUE,
                  source_gateway |-> Get(p, "from_gateway", None),
                  target_gateway |-> Get(p, "to_gateway", None),
                  shift_pct |-> Get(p, "shift_pct", 0)]
            ELSE [simulated |-> FALSE, routing_updated |-> TRUE]
       ELSE IF t = "modify_retry_config"
       THEN IF simulation_mode
            THEN [simulated |-> TRUE,
                  new_max_retries |-> Get(p, "new_max_retries", None),
                  new_retry_delay_ms |-> Get(p, "new_retry_delay_ms", None)]
            ELSE [simulated |-> FALSE, config_updated |-> TRUE]
       ELSE IF t = "rate_limit"
       THEN IF simulation_mode
            THEN [simulated |-> TRUE, reduction_pct |-> Get(p, "reduction_pct", 0)]
            ELSE [simulated |-> FALSE, rate_limit_applied |-> TRUE]
       ELSE IF t = "circuit_break"
       THEN [simulated |-> simulation_mode, circuit_state |-> "OPEN"]
       ELSE IF t = "alert_merchant"
       THEN IF simulation_mode
            THEN [simulated |-> TRUE, alert_sent |-> TRUE,
                  message |-> Get(p, "message", "")]
            ELSE [simulated |-> FALSE, alert_sent |-> TRUE]
       ELSE [status |-> "completed", message |-> "No action taken"]

\* _register_active_action: the executor's dict with the entry of the action
\* written (over any entry the id already has).
_register_active_action(registry, action, baseline_snapshot, execution_result, t) ==
    Put(registry, action.action_id,
        [action |-> action,
         baseline_snapshot |-> baseline_snapshot,
         execution_result |-> execution_result,
         started_at |-> t,
         expires_at |-> t + action.duration_minutes,
         status |-> "active"])

\* The auto-expiry task execute_action creates, asleep until its deadline.
ExpiryTask(action, t) ==
    [kind |-> "auto_expire", action_id |-> action.action_id,
     wake_at |-> t + action.duration_minutes]

\* Mutant of execute_action: no auto-expiry task is created.
execute_action_NoExpiryTask(registry, action, current_state, t) ==
    LET baseline_snapshot == _capture_state_snapshot(current_state, t)
    IN IF action.action_type \in ActionTypes
       THEN [registry |-> _register_active_action(registry, action, baseline_snapshot,
                                                  ExecutionDetails(action), t),
             tasks |-> <<>>,
             result |-> [action_id |-> action.action_id,
                         status |-> "success",
                         execution_details |-> ExecutionDetails(action),
                         baseline_snapshot |-> baseline_snapshot,
                         expires_at |-> t + action.duration_minutes]]
       ELSE [registry |-> registry,
             tasks |-> <<>>,
             result |-> [action_id |-> action.action_id,
                         status |-> "failed",
                         error |-> "Unknown action type",
                         baseline_snapshot |-> baseline_snapshot]]

\* Mutant of execute_action: the action is registered, and its task created,
\* before the dispatch on the action type.
execute_action_RegistersFirst(registry, action, current_state, t) ==
    LET baseline_snapshot == _capture_state_snapshot(current_state, t)
        registered == _register_active_action(registry, action, baseline_snapshot,
                                              EmptyDict, t)
    IN IF action.action_type \in ActionTypes
       THEN [registry |-> _register_active_action(registry, action, baseline_snapshot,
                                                  ExecutionDetails(action), t),
             tasks |-> <<ExpiryTask(action, t)>>,
             result |-> [action_id |-> action.action_id,
                         status |-> "success",
                         execution_details |-> ExecutionDetails(action),
                         baseline_snapshot |-> baseline_snapshot,
                         expires_at |-> t + action.duration_minutes]]
       ELSE [registry |-> registered,
             tasks |-> <<ExpiryTask(action, t)>>,
             result |-> [action_id |-> action.action_id,
                         status |-> "failed",
                         error |-> "Unknown action type",
                         baseline_snapshot |-> baseline_snapshot]]

\* execute_action at time t: the executor's dict after the call, the value
\* returned and the tasks created.
execute_action(registry, action, current_state, t) ==
    LET baseline_snapshot == _capture_state_snapshot(current_state, t)
    IN IF action.action_type \in ActionTypes
       THEN [registry |-> _register_active_action(registry, action, baseline_snapshot,
                                                  ExecutionDetails(action), t),
             tasks |-> <<ExpiryTask(action, t)>>,
             result |-> [action_id |-> action.action_id,
                         status |-> "success",
                         execution_details |-> ExecutionDetails(action),
                         baseline_snapshot |-> baseline_snapshot,
                         expires_at |-> t + action.duration_minutes]]
       ELSE [registry |-> registry,
             tasks |-> <<>>,
             result |-> [action_id |-> action.action_id,
                         status |-> "failed",
                         error |-> "Unknown action type",
                         baseline_snapshot |-> baseline_snapshot]]

\* A rollback reason: the text and the numbers formatted into it.
Reason(text, args) == [text |-> text, args |-> args]

AutomaticExpiration == Reason("Automatic expiration", <<>>)

\* The guard of rollback_action (action_executor.py:280): the call goes on to
\* restore the baseline and to write the rollback metadata.
RollbackProceeds(registry, action_id) == action_id \in DOMAIN registry

\* Mutant of rollback_action: an unknown id gets an entry, which is marked
\* rolled back (setdefault instead of the not-found test).
rollback_action_CreatesEntry(registry, action_id, reason, t) ==
    LET action_state == Get(registry, action_id, [baseline_snapshot |-> EmptyDict])
        marked == Put(Put(Put(action_state, "status", "rolled_back"),
                          "rollback_reason", reason),
                      "rolled_back_at", t)
    IN [registry |-> Put(registry, action_id, marked),
        restored |-> TRUE,
        result |-> [status |-> "success",
                    action_id |-> action_id,
                    rollback_details |-> [simulated |-> simulation_mode,
                                          state_restored |-> TRUE],
                    baseline_restored |-> action_state.baseline_snapshot]]

\* rollback_action at time t: the executor's dict after the call, the value
\* returned, and whether the baseline was restored.
rollback_action(registry, action_id, reason, t) ==
    IF ~RollbackProceeds(registry, action_id)
    THEN [registry |-> registry,
          restored |-> FALSE,
          result |-> [status |-> "error", message |-> "Action not found"]]
    ELSE LET action_state == registry[action_id]
             marked == Put(Put(Put(action_state, "status", "rolled_back"),
                               "rollback_reason", reason),
                           "rolled_back_at", t)
         IN [registry |-> Put(registry, action_id, marked),
             restored |-> TRUE,
             result |-> [status |-> "success",
                         action_id |-> action_id,
                         rollback_details |-> [simulated |-> simulation_mode,
                                               state_restored |-> TRUE],
                         baseline_restored |-> action_state.baseline_snapshot]]

\* Mutant of AutoExpireCallsRollback: the membership test is inverted.
AutoExpireCallsRollback_Inverted(registry, action_id) == action_id \notin DOMAIN registry

\* The guard of _auto_expire_action after its sleep (action_executor.py:265).
AutoExpireCallsRollback(registry, action_id) == action_id \in DOMAIN registry

\* get_active_actions of the executor, as a set of (action_id, status).
get_active_actions(registry) ==
    {[action_id |-> id, action_type |-> registry[id].action.action_type,
      started_at |-> registry[id].started_at, expires_at |-> registry[id].expires_at,
      status |-> registry[id].status] : id \in DOMAIN registry}

(***************************************************************************)
(* RollbackManager                                                         *)
(***************************************************************************)
\* The metrics snapshots the metrics query returns.
Metrics(success_rate, error_rate, p95, timeout_rate) ==
    [success_rate |-> success_rate, error_rate |-> error_rate,
     p95_latency_ms |-> p95, timeout_rate |-> timeout_rate]

_detect_new_anomalies(current_metrics) ==
    \/ Get(current_metrics, "error_rate", 0) > MAX_ERROR_RATE
    \/ Get(current_metrics, "p95_latency_ms", 0) > MAX_P95_LATENCY_MS
    \/ Get(current_metrics, "timeout_rate", 0) > MAX_TIMEOUT_RATE

\* improvement_pct of monitor_action_outcome, in hundredths of a percent,
\* rounded down.
improvement_pct(baseline_metrics, current_metrics) ==
    LET baseline_success_rate == Get(baseline_metrics, "success_rate", 0)
        current_success_rate == Get(current_metrics, "success_rate", 0)
    IN IF baseline_success_rate > 0
       THEN ((current_success_rate - baseline_success_rate) * 10000)
                \div baseline_success_rate
       ELSE 0

\* Mutant of RollbackDecision: the insufficient-improvement trigger is tested
\* before the degradation trigger.
RollbackDecision_InsufficientFirst(baseline_metrics, current_metrics) ==
    LET imp == improvement_pct(baseline_metrics, current_metrics)
    IN IF imp < MIN_IMPROVEMENT_THRESHOLD_PCT
       THEN [should_rollback |-> TRUE,
             rollback_reason |-> Reason("Insufficient improvement", <<imp>>)]
       ELSE IF imp < DEGRADATION_THRESHOLD_PCT
       THEN [should_rollback |-> TRUE,
             rollback_reason |-> Reason("Degradation detected", <<imp>>)]
       ELSE IF _detect_new_anomalies(current_metrics)
       THEN [should_rollback |-> TRUE,
             rollback_reason |-> Reason("New anomalies detected after intervention", <<>>)]
       ELSE [should_rollback |-> FALSE, rollback_reason |-> Reason(None, <<>>)]

\* The rollback decision of monitor_action_outcome (rollback_manager.py:67-90).
RollbackDecision(baseline_metrics, current_metrics) ==
    LET imp == improvement_pct(baseline_metrics, current_metrics)
    IN IF imp < DEGRADATION_THRESHOLD_PCT
       THEN [should_rollback |-> TRUE,
             rollback_reason |-> Reason("Degradation detected", <<imp>>)]
       ELSE IF imp < MIN_IMPROVEMENT_THRESHOLD_PCT
       THEN [should_rollback |-> TRUE,
             rollback_reason |-> Reason("Insufficient improvement", <<imp>>)]
       ELSE IF _detect_new_anomalies(current_metrics)
       THEN [should_rollback |-> TRUE,
             rollback_reason |-> Reason("New anomalies detected after intervention", <<>>)]
       ELSE [should_rollback |-> FALSE, rollback_reason |-> Reason(None, <<>>)]

\* Mutant of monitor_action_outcome: a trigger is reported without a call of
\* rollback_action.
monitor_action_outcome_ReportsOnly(registry, action, baseline_metrics, current_metrics, t) ==
    LET decision == RollbackDecision(baseline_metrics, current_metrics)
        imp == improvement_pct(baseline_metrics, current_metrics)
    IN IF decision.should_rollback
       THEN [registry |-> registry,
             restored |-> FALSE,
             result |-> [action_id |-> action.action_id,
                         rollback_triggered |-> TRUE,
                         rollback_reason |-> decision.rollback_reason,
                         improvement_pct |-> imp,
                         baseline_success_rate |-> Get(baseline_metrics, "success_rate", 0),
                         current_success_rate |-> Get(current_metrics, "success_rate", 0),
                         rollback_result |-> [status |-> "error",
                                              message |-> "Action not found"]]]
       ELSE [registry |-> registry,
             restored |-> FALSE,
             result |-> [action_id |-> action.action_id,
                         rollback_triggered |-> FALSE,
                         improvement_pct |-> imp,
                         baseline_success_rate |-> Get(baseline_metrics, "success_rate", 0),
                         current_success_rate |-> Get(current_metrics, "success_rate", 0),
                         status |-> "success"]]

\* Mutant of monitor_action_outcome: rollback_action is called whatever the
\* rollback decision is.
monitor_action_outcome_AlwaysRollsBack(registry, action, baseline_metrics, current_metrics, t) ==
    LET decision == RollbackDecision(baseline_metrics, current_metrics)
        imp == improvement_pct(baseline_metrics, current_metrics)
        rb == rollback_action(registry, action.action_id, decision.rollback_reason, t)
    IN [registry |-> rb.registry,
        restored |-> rb.restored,
        result |-> [action_id |-> action.action_id,
                    rollback_triggered |-> decision.should_rollback,
                    rollback_reason |-> decision.rollback_reason,
                    improvement_pct |-> imp,
                    baseline_success_rate |-> Get(baseline_metrics, "success_rate", 0),
                    current_success_rate |-> Get(current_metrics, "success_rate", 0),
                    rollback_result |-> rb.result]]

\* monitor_action_outcome from the end of its observation wait, at time t, with
\* the metrics its query returned: the executor's dict afterwards, the value
\* returned, and whether a baseline was restored.
monitor_action_outcome(registry, action, baseline_metrics, current_metrics, t) ==
    LET decision == RollbackDecision(baseline_metrics, current_metrics)
        imp == improvement_pct(baseline_metrics, current_metrics)
        rb == rollback_action(registry, action.action_id, decision.rollback_reason, t)
    IN IF decision.should_rollback
       THEN [registry |-> rb.registry,
             restored |-> rb.restored,
             result |-> [action_id |-> action.action_id,
                         rollback_triggered |-> TRUE,
                         rollback_reason |-> decision.rollback_reason,
                         improvement_pct |-> imp,
                         baseline_success_rate |-> Get(baseline_metrics, "success_rate", 0),
                         current_success_rate |-> Get(current_metrics, "success_rate", 0),
                         rollback_result |-> rb.result]]
       ELSE [registry |-> registry,
             restored |-> FALSE,
             result |-> [action_id |-> action.action_id,
                         rollback_triggered |-> FALSE,
                         improvement_pct |-> imp,
                         baseline_success_rate |-> Get(baseline_metrics, "success_rate", 0),
                         current_success_rate |-> Get(current_metrics, "success_rate", 0),
                         status |-> "success"]]

(***************************************************************************)
(* OutcomeTracker                                                          *)
(***************************************************************************)
\* improvement_achieved of track_outcome (outcome_tracker.py:46-54) as a
\* fraction num/den of integers, in percent.
improvement_achieved(baseline_metrics, current_metrics) ==
    LET baseline_success == Get(baseline_metrics, "success_rate", 0)
        current_success == Get(current_metrics, "success_rate", 0)
    IN IF baseline_success > 0
       THEN [num |-> (current_success - baseline_success) * 100,
             den |-> baseline_success]
       ELSE [num |-> 0, den |-> 1]

\* improvement >= expected * tenths / 10, expected in hundredths of a percent.
AtLeast(improvement, expected, tenths) ==
    improvement.num * 1000 >= expected * tenths * improvement.den

\* improvement > expected * tenths / 10, expected in hundredths of a percent.
MoreThan(improvement, expected, tenths) ==
    improvement.num * 1000 > expected * tenths * improvement.den

\* The improvement in hundredths of a percent, rounded down.
Hundredths(improvement) == (improvement.num * 100) \div improvement.den

\* met_expectations of track_outcome (outcome_tracker.py:57-59).
met_expectations(action, improvement) ==
    AtLeast(improvement, action.expected_improvement_pct, 8)

\* rollback_reason = None in an outcome.
NoReason == Reason(None, <<>>)

\* The rollback_info argument when it is None (the default).
NoRollbackInfo == [is_none |-> TRUE]

\* rollback_info is not None
IsNotNone(rollback_info) == "is_none" \notin DOMAIN rollback_info

\* bool(rollback_info): a dict with at least one key.
Truthy(rollback_info) == IsNotNone(rollback_info) /\ DOMAIN rollback_info # {}

\* The status track_outcome gives the outcome (outcome_tracker.py:62-67).
OutcomeStatus(rollback_info, met) ==
    IF Truthy(rollback_info) /\ Get(rollback_info, "rollback_triggered", FALSE)
    THEN "rolled_back"
    ELSE IF met THEN "success"
    ELSE "failed"

\* The sentences of _generate_lessons, by what they say.
_generate_lessons(action, improvement, met) ==
    <<IF met THEN "successful" ELSE "did not meet expectations",
      IF improvement.num > 0 THEN "achieved improvement" ELSE "performance degraded">>
        \o (IF action.action_type = "adjust_routing"
            THEN <<IF ~AtLeast(improvement, action.expected_improvement_pct, 10)
                   THEN "more aggressive" ELSE "more conservative">>
            ELSE IF action.action_type = "modify_retry_config" /\ improvement.num < 0
            THEN <<"retry storms">>
            ELSE IF action.action_type = "rate_limit" /\ improvement.num < 0
            THEN <<"too aggressive">>
            ELSE <<>>)

\* Mutant of _calculate_confidence_adjustment: an improvement that only
\* reaches the tolerance is penalised.
_calculate_confidence_adjustment_ToleranceIgnored(action, improvement, met) ==
    IF ~met
    THEN IF improvement.num < 0 THEN -20 ELSE -10
    ELSE IF MoreThan(improvement, action.expected_improvement_pct, 15) THEN 15
    ELSE IF MoreThan(improvement, action.expected_improvement_pct, 10) THEN 10
    ELSE -10

\* _calculate_confidence_adjustment, in hundredths.
_calculate_confidence_adjustment(action, improvement, met) ==
    IF ~met
    THEN IF improvement.num < 0 THEN -20 ELSE -10
    ELSE IF MoreThan(improvement, action.expected_improvement_pct, 15) THEN 15
    ELSE IF MoreThan(improvement, action.expected_improvement_pct, 10) THEN 10
    ELSE 5

\* Mutant of track_outcome: the improvement is computed without the test of
\* the baseline, a baseline of 0 giving the current success rate itself.
track_outcome_NoBaselineTest(action, baseline_metrics, current_metrics, rollback_info) ==
    LET baseline_success == Get(baseline_metrics, "success_rate", 0)
        current_success == Get(current_metrics, "success_rate", 0)
        improvement == [num |-> (current_success - baseline_success) * 100,
                        den |-> Max(baseline_success, 1)]
        met == met_expectations(action, improvement)
    IN [action_id |-> action.action_id,
        action_type |-> action.action_type,
        status |-> OutcomeStatus(rollback_info, met),
        improvement_achieved |-> Hundredths(improvement),
        met_expectations |-> met,
        rollback_triggered |-> IsNotNone(rollback_info),
        rollback_reason |-> IF Truthy(rollback_info)
                            THEN Get(rollback_info, "rollback_reason", NoReason)
                            ELSE NoReason,
        lessons_learned |-> _generate_lessons(action, improvement, met),
        confidence_adjustment |-> _calculate_confidence_adjustment(action, improvement, met)]

\* Mutant of track_outcome: expectations are met only by the full expected
\* improvement, and a rolled back action that met them counts as a success.
track_outcome_NoTolerance(action, baseline_metrics, current_metrics, rollback_info) ==
    LET improvement == improvement_achieved(baseline_metrics, current_metrics)
        met == AtLeast(improvement, action.expected_improvement_pct, 10)
    IN [action_id |-> action.action_id,
        action_type |-> action.action_type,
        status |-> IF met THEN "success" ELSE OutcomeStatus(rollback_info, met),
        improvement_achieved |-> Hundredths(improvement),
        met_expectations |-> met,
        rollback_triggered |-> IsNotNone(rollback_info),
        rollback_reason |-> IF Truthy(rollback_info)
                            THEN Get(rollback_info, "rollback_reason", NoReason)
                            ELSE NoReason,
        lessons_learned |-> _generate_lessons(action, improvement, met),
        confidence_adjustment |-> _calculate_confidence_adjustment(action, improvement, met)]

\* track_outcome: the ActionOutcome it builds, appends to self.outcomes and
\* returns.  The two metrics dicts the outcome carries along are left out of
\* the record; improvement_achieved is kept in hundredths of a percent.
track_outcome(action, baseline_metrics, current_metrics, rollback_info) ==
    LET improvement == improvement_achieved(baseline_metrics, current_metrics)
        met == met_expectations(action, improvement)
    IN [action_id |-> action.action_id,
        action_type |-> action.action_type,
        status |-> OutcomeStatus(rollback_info, met),
        improvement_achieved |-> Hundredths(improvement),
        met_expectations |-> met,
        rollback_triggered |-> IsNotNone(rollback_info),
        rollback_reason |-> IF Truthy(rollback_info)
                            THEN Get(rollback_info, "rollback_reason", NoReason)
                            ELSE NoReason,
        lessons_learned |-> _generate_lessons(action, improvement, met),
        confidence_adjustment |-> _calculate_confidence_adjustment(action, improvement, met)]

(***************************************************************************)
(* LearningSystem                                                          *)
(***************************************************************************)
\* Mutant of _update_pattern_confidence: the increase is not capped.
_update_pattern_confidence_Uncapped(confidences, pattern_type, hypothesis_correct, original_confidence) ==
    LET seeded == IF pattern_type \notin DOMAIN confidences
                  THEN Put(confidences, pattern_type, original_confidence)
                  ELSE confidences
        current_confidence == seeded[pattern_type]
        new_confidence == IF hypothesis_correct
                          THEN current_confidence + 5
                          ELSE Max(30, current_confidence - 10)
    IN Put(seeded, pattern_type, new_confidence)

\* _update_pattern_confidence: self.pattern_confidences after the call,
\* confidences in percent.
_update_pattern_confidence(confidences, pattern_type, hypothesis_correct, original_confidence) ==
    LET seeded == IF pattern_type \notin DOMAIN confidences
                  THEN Put(confidences, pattern_type, original_confidence)
                  ELSE confidences
        current_confidence == seeded[pattern_type]
        new_confidence == IF hypothesis_correct
                          THEN Min(95, current_confidence + 5)
                          ELSE Max(30, current_confidence - 10)
    IN Put(seeded, pattern_type, new_confidence)

\* Mutant of _update_action_effectiveness: the newest entry is the one
\* dropped from a full history.
_update_action_effectiveness_DropsNewest(effectiveness, action_type, improvement) ==
    LET started == IF action_type \notin DOMAIN effectiveness
                   THEN Put(effectiveness, action_type, <<>>)
                   ELSE effectiveness
        appended == Append(started[action_type], improvement)
    IN Put(started, action_type,
           IF Len(appended) > 20 THEN SubSeq(appended, 1, 20) ELSE appended)

\* _update_action_effectiveness: self.action_effectiveness after the call.
_update_action_effectiveness(effectiveness, action_type, improvement) ==
    LET started == IF action_type \notin DOMAIN effectiveness
                   THEN Put(effectiveness, action_type, <<>>)
                   ELSE effectiveness
        appended == Append(started[action_type], improvement)
    IN Put(started, action_type,
           IF Len(appended) > 20 THEN Tail(appended) ELSE appended)

\* self.collection = None: chromadb is missing or its client failed to start.
NoCollection == [available |-> FALSE, ids |-> {}]

\* The collection get_or_create_collection returns, by the ids stored in it.
EmptyCollection == [available |-> TRUE, ids |-> {}]

\* Whether collection.add can fail in a call: only where it is called.
AddFailures(coll) == IF coll.available THEN BOOLEAN ELSE {FALSE}

\* Mutant of _store_in_vector_memory: no handler around collection.add, and
\* no test of the collection before it.
_store_in_vector_memory_NoHandler(coll, learning_entry, add_fails) ==
    IF ~coll.available \/ add_fails
    THEN [collection |-> coll, raised |-> TRUE]
    ELSE [collection |-> [coll EXCEPT !.ids = @ \cup {learning_entry.incident_id}],
          raised |-> FALSE]

\* _store_in_vector_memory: the collection after the call and whether an
\* exception leaves the function.  add_fails: collection.add raises.
_store_in_vector_memory(coll, learning_entry, add_fails) ==
    IF ~coll.available
    THEN [collection |-> coll, raised |-> FALSE]
    ELSE IF add_fails
    THEN [collection |-> coll, raised |-> FALSE]
    ELSE [collection |-> [coll EXCEPT !.ids = @ \cup {learning_entry.incident_id}],
          raised |-> FALSE]

\* learn_from_outcome: the two dicts after the call and the LearningEntry
\* returned.
learn_from_outcome(confidences, effectiveness, outcome, hypothesis_confidence, pattern_type) ==
    LET hypothesis_correct == outcome.met_expectations
    IN [pattern_confidences |->
            _update_pattern_confidence(confidences, pattern_type, hypothesis_correct,
                                       hypothesis_confidence),
        action_effectiveness |->
            _update_action_effectiveness(effectiveness, outcome.action_type,
                                         outcome.improvement_achieved),
        result |-> [incident_id |-> outcome.action_id,
                    pattern_type |-> pattern_type,
                    hypothesis_confidence |-> hypothesis_confidence,
                    hypothesis_correct |-> hypothesis_correct,
                    action_taken |-> outcome.action_type,
                    outcome |-> IF outcome.met_expectations THEN "success" ELSE "failed",
                    improvement_achieved |-> outcome.improvement_achieved,
                    recommended_confidence_adjustment |-> outcome.confidence_adjustment]]

\* get_action_effectiveness: sample size and the last five improvements.
get_action_effectiveness(effectiveness, action_type) ==
    IF action_type \notin DOMAIN effectiveness
    THEN [action_type |-> action_type, sample_size |-> 0]
    ELSE LET improvements == effectiveness[action_type]
             n == Len(improvements)
         IN [action_type |-> action_type,
             sample_size |-> n,
             recent_improvements |-> SubSeq(improvements, Max(1, n - 4), n)]

(***************************************************************************)
(* The event loop.                                                         *)
(***************************************************************************)

\* Action ids are opaque names: a new decision carries an id the executor has
\* seen, or the first id it has not.
FreshOrSeen(action_id) ==
    \/ action_id \in DOMAIN exec_active
    \/ \E i \in 1..Len(IdOrder) :
          /\ IdOrder[i] = action_id
          /\ \A j \in 1..(i - 1) : IdOrder[j] \in DOMAIN exec_active

RemoveAt(q, i) == SubSeq(q, 1, i - 1) \o SubSeq(q, i + 1, Len(q))

\* sleepq[i] is the coroutine the loop resumes next: its deadline has passed
\* and no sleeper has an earlier deadline, or the same deadline and an earlier
\* place in the queue.
\* Mutant of Runnable: a sleeper is resumed whether or not its deadline has
\* passed.
Runnable_BeforeDeadline(i) ==
    /\ i \in 1..Len(sleepq)
    /\ \A j \in 1..Len(sleepq) :
          \/ sleepq[j].wake_at > sleepq[i].wake_at
          \/ (sleepq[j].wake_at = sleepq[i].wake_at /\ j >= i)

Runnable(i) ==
    /\ i \in 1..Len(sleepq)
    /\ sleepq[i].wake_at <= now
    /\ \A j \in 1..Len(sleepq) :
          \/ sleepq[j].wake_at > sleepq[i].wake_at
          \/ (sleepq[j].wake_at = sleepq[i].wake_at /\ j >= i)

NoneDue == \A j \in 1..Len(sleepq) : sleepq[j].wake_at > now

\* The earliest deadline after now, MaxTime when there is none before it.
NextDeadline ==
    LET later == {sleepq[j].wake_at : j \in 1..Len(sleepq)} \cap (now + 1 .. MaxTime)
    IN IF later = {} THEN MaxTime
       ELSE CHOOSE d \in later : \A e \in later : d <= e

\* restores after a call that restored (or not) the baseline of action_id.
Restored(action_id, restored) ==
    IF restored
    THEN [restores EXCEPT ![action_id] = Min(restores[action_id] + 1, MaxRestores)]
    ELSE restores

\* Time passes while every coroutine is asleep.
Tick ==
    /\ NoneDue
    /\ now < MaxTime
    /\ now' = Min(now + TickMinutes, NextDeadline)
    /\ UNCHANGED <<guard_active, exec_active, restores, sleepq, lc, ret,
                 ncalls, learning>>

\* _auto_expire_action from the end of its sleep.
AutoExpire(i) ==
    /\ Runnable(i)
    /\ sleepq[i].kind = "auto_expire"
    /\ LET action_id == sleepq[i].action_id
           rb == rollback_action(exec_active, action_id, AutomaticExpiration, now)
       IN IF AutoExpireCallsRollback(exec_active, action_id)
          THEN /\ exec_active' = rb.registry
               /\ restores' = Restored(action_id, rb.restored)
               /\ ret' = [op |-> "_auto_expire_action", action_id |-> action_id,
                          called_rollback |-> TRUE, result |-> rb.result]
          ELSE /\ ret' = [op |-> "_auto_expire_action", action_id |-> action_id,
                          called_rollback |-> FALSE]
               /\ UNCHANGED <<exec_active, restores>>
    /\ sleepq' = RemoveAt(sleepq, i)
    /\ UNCHANGED <<now, guard_active, lc, ncalls, learning>>

(***************************************************************************)
(* PaymentOpsAgent.handle_decision                                         *)
(***************************************************************************)
Lifecycles == 1..NumLifecycles

\* What PaymentOpsAgent._get_current_metrics may return.
PipelineMetrics == {Metrics(890, 110, 3200, 30), Metrics(820, 180, 3500, 50)}

\* The sleeping monitor_action_outcome of handle_decision call l.
PipelineMonitor(l, t) ==
    [kind |-> "monitor", owner |-> l, wake_at |-> t + OBSERVATION_WINDOW_MIN]

\* Mutant of RegistryAtValidation: the verdict was computed before the latest
\* registration, as it would be if handle_decision suspended between
\* validate_action and register_active_action.
RegistryAtValidation_Stale ==
    IF Len(guard_active) > 0
    THEN SubSeq(guard_active, 1, Len(guard_active) - 1)
    ELSE guard_active

\* The registry validate_action reads in handle_decision: the registry as it is
\* when register_active_action runs, no await lying between the two calls.
RegistryAtValidation == guard_active

\* handle_decision from its entry to its first suspension, the observation
\* wait of monitor_action_outcome, or to its return when the decision is
\* rejected (main.py:225-251, rollback_manager.py:46-51).
HandleDecision(l, d) ==
    /\ lc[l].pc = "idle"
    /\ \A k \in 1..(l - 1) : lc[k].pc # "idle"
    /\ FreshOrSeen(d.action_id)
    /\ LET v == validate_action(d, RegistryAtValidation)
           ex == execute_action(exec_active, d, _get_system_state, now)
       IN IF ~v.is_valid
          THEN /\ lc' = [lc EXCEPT ![l] = [pc |-> "done", metrics_queries |-> 0]]
               /\ ret' = [op |-> "handle_decision", action_id |-> d.action_id,
                          escalated |-> TRUE, violations |-> v.violations]
               /\ UNCHANGED <<guard_active, exec_active, sleepq>>
          ELSE /\ guard_active' = register_active_action(guard_active, d, now)
               /\ exec_active' = ex.registry
               /\ sleepq' = Append(sleepq, PipelineMonitor(l, now)) \o ex.tasks
               /\ lc' = [lc EXCEPT ![l] =
                            [pc |-> "observing", decision |-> d,
                             baseline_metrics |->
                                 Get(ex.result, "baseline_snapshot", EmptyDict),
                             metrics_queries |-> 0]]
               /\ ret' = [op |-> "execute_action", action_id |-> d.action_id,
                          result |-> ex.result]
    /\ UNCHANGED <<now, restores, ncalls, learning>>

\* handle_decision from the end of the observation wait to its return
\* (rollback_manager.py:53-124, main.py:257-303).
HandleResume(i) ==
    /\ Runnable(i)
    /\ sleepq[i].kind = "monitor"
    /\ sleepq[i].owner \in Lifecycles
    /\ LET l == sleepq[i].owner
           d == lc[l].decision
       IN \E current_metrics \in PipelineMetrics, final_metrics \in PipelineMetrics :
            LET m == monitor_action_outcome(exec_active, d, lc[l].baseline_metrics,
                                            current_metrics, now)
                outcome == track_outcome(d, lc[l].baseline_metrics, final_metrics,
                                         IF m.result.rollback_triggered
                                         THEN m.result ELSE NoRollbackInfo)
                learned == learn_from_outcome(pattern_confidences, action_effectiveness,
                                              outcome, d.confidence, d.action_type)
            IN /\ exec_active' = m.registry
               /\ restores' = Restored(d.action_id, m.restored)
               /\ outcomes' = Append(outcomes, outcome)
               /\ pattern_confidences' = learned.pattern_confidences
               /\ action_effectiveness' = learned.action_effectiveness
               /\ \E add_fails \in AddFailures(collection) :
                     collection' = _store_in_vector_memory(collection, learned.result,
                                                           add_fails).collection
               /\ guard_active' = deregister_active_action(guard_active, d.action_id)
               /\ lc' = [lc EXCEPT ![l] = [pc |-> "done", metrics_queries |-> 2]]
               /\ ret' = [op |-> "handle_decision", action_id |-> d.action_id,
                          escalated |-> FALSE, rollback_info |-> m.result,
                          current_metrics |-> current_metrics]
    /\ sleepq' = RemoveAt(sleepq, i)
    /\ UNCHANGED <<now, ncalls>>

InitExceptStore ==
    /\ now = 0
    /\ guard_active = <<>>
    /\ exec_active = EmptyDict
    /\ restores = [id \in ActionIds |-> 0]
    /\ sleepq = <<>>
    /\ lc = [l \in Lifecycles |-> [pc |-> "idle"]]
    /\ ret = [op |-> "none"]
    /\ ncalls = 0
    /\ outcomes = <<>>
    /\ pattern_confidences = EmptyDict
    /\ action_effectiveness = EmptyDict

\* The state after construction where chromadb is not installed.
Init ==
    /\ InitExceptStore
    /\ collection = NoCollection

\* The state after construction, with or without the knowledge store.
InitStore ==
    /\ InitExceptStore
    /\ collection \in {NoCollection, EmptyCollection}

Next ==
    \/ \E l \in Lifecycles, d \in PipelineDecisions : HandleDecision(l, d)
    \/ \E i \in 1..Len(sleepq) : HandleResume(i)
    \/ \E i \in 1..Len(sleepq) : AutoExpire(i)
    \/ Tick

Spec == Init /\ [][Next]_vars

\* handle_decision called with an action id no earlier decision carried.
HandleFreshDecision(l, d) ==
    /\ d.action_id \notin DOMAIN exec_active
    /\ HandleDecision(l, d)

\* The pipeline when every decision has its own action id.
NextUnique ==
    \/ \E l \in Lifecycles, d \in PipelineDecisions : HandleFreshDecision(l, d)
    \/ \E i \in 1..Len(sleepq) : HandleResume(i)
    \/ \E i \in 1..Len(sleepq) : AutoExpire(i)
    \/ Tick

SpecUnique == Init /\ [][NextUnique]_vars

\* handle_decision from the end of the observation wait when an awaited call
\* raises: the metrics query of monitor_action_outcome (rollback_manager.py:54)
\* or learn_from_outcome (main.py:289), the latter on entry.  No handler lies between the call and
\* the caller of handle_decision, so the statements after it are not run.
HandleResumeRaises(i, raising) ==
    /\ Runnable(i)
    /\ sleepq[i].kind = "monitor"
    /\ sleepq[i].owner \in Lifecycles
    /\ LET l == sleepq[i].owner
           d == lc[l].decision
       IN /\ IF raising = "get_current_metrics_fn"
             THEN UNCHANGED <<exec_active, restores, learning>>
             ELSE \E current_metrics \in PipelineMetrics, final_metrics \in PipelineMetrics :
                    LET m == monitor_action_outcome(exec_active, d,
                                 lc[l].baseline_metrics, current_metrics, now)
                        outcome == track_outcome(d, lc[l].baseline_metrics, final_metrics,
                                                 IF m.result.rollback_triggered
                                                 THEN m.result ELSE NoRollbackInfo)
                    IN /\ exec_active' = m.registry
                       /\ restores' = Restored(d.action_id, m.restored)
                       /\ outcomes' = Append(outcomes, outcome)
                       /\ UNCHANGED <<pattern_confidences, action_effectiveness, collection>>
          /\ lc' = [lc EXCEPT ![l] =
                       [pc |-> "raised",
                        metrics_queries |-> IF raising = "get_current_metrics_fn"
                                            THEN 1 ELSE 2]]
          /\ ret' = [op |-> "handle_decision", action_id |-> d.action_id,
                     escalated |-> FALSE, raised |-> raising]
    /\ sleepq' = RemoveAt(sleepq, i)
    /\ UNCHANGED <<now, guard_active, ncalls>>

\* The awaited calls of the pipeline that can raise.
RaisingCalls == {"get_current_metrics_fn", "learn_from_outcome"}

\* The pipeline, every decision with its own action id, when the metrics query
\* or the learning step may raise.
NextRaising ==
    \/ \E l \in Lifecycles, d \in PipelineDecisions : HandleFreshDecision(l, d)
    \/ \E i \in 1..Len(sleepq) : HandleResume(i)
    \/ \E i \in 1..Len(sleepq), raising \in RaisingCalls : HandleResumeRaises(i, raising)
    \/ \E i \in 1..Len(sleepq) : AutoExpire(i)
    \/ Tick

SpecRaising == Init /\ [][NextRaising]_vars

(***************************************************************************)
(* The components called directly, as the tests and examples/simple_usage  *)
(* call them.                                                              *)
(***************************************************************************)
\* The decision of test_rollback_action (test_executor.py:84-95), with the
\* given id and duration.
RateLimitDecision(id, dur) ==
    Decision(id, "rate_limit", "payment_method", "card",
             [reduction_pct |-> 40], dur, 800, "medium", 70)

DirectDecisions ==
    {RateLimitDecision("a1", 5), RateLimitDecision("a1", 15), RateLimitDecision("a2", 15)}

\* Reasons a caller gives rollback_action (test_executor.py:104).
CallerReasons == {Reason("Testing rollback functionality", <<>>)}

\* The baseline a caller gives monitor_action_outcome (simple_usage.py:104-109).
DirectBaselines == {Metrics(820, 180, 3500, 50)}

\* What the caller's metrics query returns: improved, degraded, improved with
\* a new anomaly.
DirectMetrics ==
    {Metrics(890, 110, 3200, 30), Metrics(700, 140, 3200, 30), Metrics(890, 180, 3200, 30)}

\* The action ids with an entry in the guardrail registry.
Registered == {guard_active[i].action_id : i \in 1..Len(guard_active)}

\* The first action id, in IdOrder, without an entry in the guardrail registry.
FirstUnregistered ==
    LET free == {i \in 1..Len(IdOrder) : IdOrder[i] \notin Registered}
    IN IF free = {} THEN None
       ELSE IdOrder[CHOOSE i \in free : \A j \in free : i <= j]

\* A direct call is made.
Called == ncalls < MaxCalls /\ ncalls' = ncalls + 1

\* SafetyGuardrails.validate_action
ValidateCall(d) ==
    /\ Called
    /\ ret' = [op |-> "validate_action", action |-> d,
               result |-> validate_action(d, guard_active)]
    /\ UNCHANGED <<now, guard_active, exec_active, restores, sleepq, lc, learning>>

\* SafetyGuardrails.register_active_action
RegisterCall(d) ==
    /\ Called
    /\ guard_active' = register_active_action(guard_active, d, now)
    /\ ret' = [op |-> "register_active_action", action_id |-> d.action_id]
    /\ UNCHANGED <<now, exec_active, restores, sleepq, lc, learning>>

\* SafetyGuardrails.deregister_active_action
DeregisterCall(action_id) ==
    /\ Called
    /\ guard_active' = deregister_active_action(guard_active, action_id)
    /\ ret' = [op |-> "deregister_active_action", action_id |-> action_id]
    /\ UNCHANGED <<now, exec_active, restores, sleepq, lc, learning>>

\* SafetyGuardrails.cleanup_expired_actions
CleanupCall ==
    /\ Called
    /\ guard_active' = cleanup_expired_actions(guard_active, now)
    /\ ret' = [op |-> "cleanup_expired_actions"]
    /\ UNCHANGED <<now, exec_active, restores, sleepq, lc, learning>>

\* ActionExecutor.execute_action
ExecuteCall(d) ==
    /\ Called
    /\ FreshOrSeen(d.action_id)
    /\ LET ex == execute_action(exec_active, d, _get_system_state, now)
       IN /\ exec_active' = ex.registry
          /\ sleepq' = sleepq \o ex.tasks
          /\ ret' = [op |-> "execute_action", action_id |-> d.action_id,
                     action |-> d, result |-> ex.result]
    /\ UNCHANGED <<now, guard_active, restores, lc, learning>>

\* ActionExecutor.rollback_action
RollbackCall(action_id, reason) ==
    /\ Called
    /\ LET rb == rollback_action(exec_active, action_id, reason, now)
       IN /\ exec_active' = rb.registry
          /\ restores' = Restored(action_id, rb.restored)
          /\ ret' = [op |-> "rollback_action", action_id |-> action_id,
                     result |-> rb.result]
    /\ UNCHANGED <<now, guard_active, sleepq, lc, learning>>

\* RollbackManager.monitor_action_outcome from its call to its observation wait.
MonitorCall(d, baseline_metrics) ==
    /\ Called
    /\ sleepq' = Append(sleepq, [kind |-> "monitor", owner |-> 0, action |-> d,
                                 baseline_metrics |-> baseline_metrics,
                                 wake_at |-> now + OBSERVATION_WINDOW_MIN])
    /\ ret' = [op |-> "monitor_action_outcome", action_id |-> d.action_id,
               returned |-> FALSE]
    /\ UNCHANGED <<now, guard_active, exec_active, restores, lc, learning>>

\* RollbackManager.monitor_action_outcome from the end of its observation wait
\* to its return.
MonitorResumeWith(i, current_metrics) ==
    /\ Runnable(i)
    /\ sleepq[i].kind = "monitor"
    /\ sleepq[i].owner = 0
    /\ LET d == sleepq[i].action
           m == monitor_action_outcome(exec_active, d, sleepq[i].baseline_metrics,
                                       current_metrics, now)
       IN /\ exec_active' = m.registry
          /\ restores' = Restored(d.action_id, m.restored)
          /\ ret' = [op |-> "monitor_action_outcome", action_id |-> d.action_id,
                     returned |-> TRUE,
                     baseline_metrics |-> sleepq[i].baseline_metrics,
                     current_metrics |-> current_metrics,
                     result |-> m.result]
    /\ sleepq' = RemoveAt(sleepq, i)
    /\ UNCHANGED <<now, guard_active, lc, ncalls, learning>>

MonitorResume(i) == \E current_metrics \in DirectMetrics : MonitorResumeWith(i, current_metrics)

\* The decisions of test_concurrent_action_limit (test_safety.py:116-141), with
\* the given id and duration.
GuardDecisions == {RateLimitDecision(id, dur) : id \in ActionIds, dur \in {5, 15}}

\* register_active_action called for an action that is not registered.
RegisterFreshCall(d) ==
    /\ d.action_id \notin Registered
    /\ d.action_id = FirstUnregistered
    /\ RegisterCall(d)

\* The guardrail registry under direct calls.
NextGuard ==
    \/ \E d \in GuardDecisions : ValidateCall(d)
    \/ \E d \in GuardDecisions : RegisterFreshCall(d)
    \/ \E id \in ActionIds : DeregisterCall(id)
    \/ CleanupCall
    \/ Tick

SpecGuard == Init /\ [][NextGuard]_vars

\* The executor and the rollback manager under direct calls.
NextExec ==
    \/ \E d \in DirectDecisions : ExecuteCall(d)
    \/ \E id \in {"a1", "a2"}, reason \in CallerReasons : RollbackCall(id, reason)
    \/ \E d \in DirectDecisions, b \in DirectBaselines : MonitorCall(d, b)
    \/ \E i \in 1..Len(sleepq) : MonitorResume(i)
    \/ \E i \in 1..Len(sleepq) : AutoExpire(i)
    \/ Tick

SpecExec == Init /\ [][NextExec]_vars

(***************************************************************************)
(* validate_action over the decisions a caller can construct.              *)
(***************************************************************************)
\* Confidence values on both sides of the threshold (0.59, 0.6, 0.9).
Confidences == {59, 60, 90}

RiskLevels == {"medium", "high"}

\* Durations on both sides of the two duration bounds.
Durations == {4, 5, 180, 181}

\* (target_dimension, target_value) pairs, on and off the critical lists.
Targets ==
    {<<"issuer_bank", "CHASE">>, <<"issuer_bank", "HDFC">>, <<"issuer_bank", "ICICI">>,
     <<"payment_method", "card">>, <<"payment_method", "upi">>}

\* The parameters dicts given with an action type: for the two types with
\* numeric limits, values at, above and below the limit.
ParametersOf(type) ==
    IF type = "rate_limit"
    THEN {EmptyDict, [reduction_pct |-> 50], [reduction_pct |-> 51], [reduction_pct |-> 75]}
    ELSE IF type = "modify_retry_config"
    THEN {[current_max_retries |-> 2, new_max_retries |-> 6],
          [current_max_retries |-> 2, new_max_retries |-> 7],
          [current_max_retries |-> 0, new_max_retries |-> 5]}
    ELSE {EmptyDict}

\* The decisions of one action type.
DecisionsOfType(type) ==
    {Decision("a4", type, tg[1], tg[2], params, dur, 800, risk, conf) :
        tg \in Targets, dur \in Durations, risk \in RiskLevels,
        conf \in Confidences, params \in ParametersOf(type)}

ValidationDecisions == UNION {DecisionsOfType(type) : type \in ActionTypes}

\* Mutant of ValidateDecision: an accepted decision is registered by the
\* validation itself.
ValidateDecision_Registers(d) ==
    /\ LET v == validate_action(d, guard_active)
       IN /\ ret' = [op |-> "validate_action", action |-> d, result |-> v]
          /\ guard_active' = IF v.is_valid
                             THEN register_active_action(guard_active, d, now)
                             ELSE guard_active
    /\ UNCHANGED <<now, exec_active, restores, sleepq, lc, ncalls, learning>>

\* SafetyGuardrails.validate_action, called with any decision.
ValidateDecision(d) ==
    /\ ret' = [op |-> "validate_action", action |-> d,
               result |-> validate_action(d, guard_active)]
    /\ UNCHANGED <<now, guard_active, exec_active, restores, sleepq, lc,
                 ncalls, learning>>

\* validate_action on every registry content register_active_action builds.
NextValidate ==
    \/ \E d \in ValidationDecisions : ValidateDecision(d)
    \/ \E id \in ActionIds : RegisterFreshCall(RateLimitDecision(id, 15))

SpecValidate == Init /\ [][NextValidate]_vars

(***************************************************************************)
(* execute_action over the action types.                                   *)
(***************************************************************************)
\* The parameters given with an action type (test_executor.py).
ExecutionParameters(type) ==
    IF type = "adjust_routing"
    THEN [from_gateway |-> "gw1", to_gateway |-> "gw2", shift_pct |-> 25]
    ELSE IF type = "modify_retry_config"
    THEN [new_max_retries |-> 5, new_retry_delay_ms |-> 2000]
    ELSE IF type = "rate_limit"
    THEN [reduction_pct |-> 40]
    ELSE EmptyDict

\* An action type the dispatch of execute_action does not know; action_type
\* is not validated when it is assigned to a Decision.
UnknownActionType == "unknown_type"

\* One decision per action type, known or not, with the given id; the rate
\* limit also with the shortest duration.
ExecutionDecisions(id) ==
    {Decision(id, type, "issuer_bank", "ICICI", ExecutionParameters(type), 15, 500,
              "low", 80) : type \in ActionTypes \cup {UnknownActionType}}
        \cup {RateLimitDecision(id, 5)}

\* execute_action called for an action id the executor does not hold.
ExecuteFreshCall(d) ==
    /\ d.action_id \notin DOMAIN exec_active
    /\ ExecuteCall(d)

\* The executor under execute_action calls for distinct actions, its
\* auto-expiry timers running.
NextExecute ==
    \/ \E id \in ActionIds : \E d \in ExecutionDecisions(id) : ExecuteFreshCall(d)
    \/ \E i \in 1..Len(sleepq) : AutoExpire(i)
    \/ Tick

SpecExecute == Init /\ [][NextExecute]_vars

(***************************************************************************)
(* monitor_action_outcome over the metrics around its thresholds.          *)
(***************************************************************************)
\* Baselines: success rate 0.82, success rate 0, and no success rate.
MonitorBaselines == {Metrics(820, 180, 3500, 50), Metrics(0, 180, 3500, 50), EmptyDict}

\* Success rates the metrics query returns: against 0.82 they give -14.63%,
\* -5.12%, -5.00%, 1.95%, 2.07% and 8.54%.
CurrentSuccessRates == {700, 778, 779, 836, 837, 890}

\* (error_rate, p95_latency_ms, timeout_rate) at the three limits, and with
\* one of the three just above its limit.
AnomalyReadings ==
    {<<150, 5000, 100>>, <<151, 5000, 100>>, <<150, 5001, 100>>, <<150, 5000, 101>>}

\* What the metrics query returns; the last one is a dict without any key.
MonitorMetrics ==
    {Metrics(s, a[1], a[2], a[3]) : s \in CurrentSuccessRates, a \in AnomalyReadings}
        \cup {EmptyDict}

MonitorDecisions == {RateLimitDecision("a1", 5), RateLimitDecision("a1", 15)}

\* monitor_action_outcome called while no other monitor is waiting.
MonitorAloneCall(d, baseline_metrics) ==
    /\ \A i \in 1..Len(sleepq) : sleepq[i].kind # "monitor"
    /\ MonitorCall(d, baseline_metrics)

\* The executor and the rollback manager, the monitor given each baseline
\* and each reading.
NextMonitor ==
    \/ \E d \in MonitorDecisions : ExecuteFreshCall(d)
    \/ \E d \in MonitorDecisions, b \in MonitorBaselines : MonitorAloneCall(d, b)
    \/ \E i \in 1..Len(sleepq), m \in MonitorMetrics : MonitorResumeWith(i, m)
    \/ \E i \in 1..Len(sleepq) : AutoExpire(i)
    \/ Tick

SpecMonitor == Init /\ [][NextMonitor]_vars

(***************************************************************************)
(* track_outcome called directly.                                          *)
(***************************************************************************)
MaxTracked == 1

\* OutcomeTracker.track_outcome
TrackCall(d, baseline_metrics, current_metrics, rollback_info) ==
    /\ Called
    /\ Len(outcomes) < MaxTracked
    /\ LET outcome == track_outcome(d, baseline_metrics, current_metrics, rollback_info)
       IN /\ outcomes' = Append(outcomes, outcome)
          /\ ret' = [op |-> "track_outcome", action |-> d,
                     baseline_metrics |-> baseline_metrics,
                     current_metrics |-> current_metrics,
                     rollback_info |-> rollback_info,
                     result |-> outcome]
    /\ UNCHANGED <<now, guard_active, exec_active, restores, sleepq, lc,
                   pattern_confidences, action_effectiveness, collection>>

\* A decision expecting 8.0 % and one expecting no improvement at all.
TrackDecisions ==
    {RateLimitDecision("a1", 15),
     Decision("a2", "adjust_routing", "issuer_bank", "HDFC",
              [from_gateway |-> "gateway_a", to_gateway |-> "gateway_b", shift_pct |-> 30],
              15, 0, "medium", 75)}

\* Success rates after the action: against 0.82 and an expectation of 8.0 %
\* they lie on both sides of 0, of the tolerance (6.4 %), of the expectation
\* and of one and a half times the expectation (12 %).
TrackSuccessRates == {700, 820, 872, 873, 885, 886, 890, 918, 919}

TrackMetrics == {Metrics(s, 110, 3200, 30) : s \in TrackSuccessRates} \cup {EmptyDict}

\* The rollback_info a caller passes: None, what the monitor returned with and
\* without a rollback, and an empty dict.
RollbackInfos ==
    {NoRollbackInfo, EmptyDict}
        \cup {monitor_action_outcome(EmptyDict, RateLimitDecision("a1", 15),
                                     Metrics(820, 180, 3500, 50), m, 0).result :
                 m \in {Metrics(700, 110, 3200, 30), Metrics(890, 110, 3200, 30)}}

\* The outcome tracker under direct calls.
NextTrack ==
    \E d \in TrackDecisions, b \in MonitorBaselines, m \in TrackMetrics,
       info \in RollbackInfos : TrackCall(d, b, m, info)

SpecTrack == Init /\ [][NextTrack]_vars

(***************************************************************************)
(* The two improvement computations on a baseline without a success rate.  *)
(***************************************************************************)
\* What the metrics query returns: success rates 0, 0.70 and 1.0, and a dict
\* without a success rate.
AnyCurrentMetrics == {Metrics(s, 110, 3200, 30) : s \in {0, 700, 1000}} \cup {EmptyDict}

\* monitor_action_outcome and track_outcome called with each baseline of
\* MonitorBaselines and each reading.
NextImprovement ==
    \/ \E b \in MonitorBaselines : MonitorAloneCall(RateLimitDecision("a1", 15), b)
    \/ \E i \in 1..Len(sleepq), m \in AnyCurrentMetrics : MonitorResumeWith(i, m)
    \/ \E b \in MonitorBaselines, m \in AnyCurrentMetrics :
          TrackCall(RateLimitDecision("a1", 15), b, m, NoRollbackInfo)
    \/ Tick

SpecImprovement == Init /\ [][NextImprovement]_vars

(***************************************************************************)
(* learn_from_outcome called directly.                                     *)
(***************************************************************************)
\* How many outcomes of the first action type are learned from, and how many
\* of the second.
MaxLearned == 22
MaxOther == 2

\* LearningSystem.learn_from_outcome
LearnCall(outcome, hypothesis_confidence, pattern_type) ==
    /\ \E add_fails \in AddFailures(collection) :
         LET learned == learn_from_outcome(pattern_confidences, action_effectiveness,
                                           outcome, hypothesis_confidence, pattern_type)
             stored == _store_in_vector_memory(collection, learned.result, add_fails)
         IN /\ pattern_confidences' = learned.pattern_confidences
            /\ action_effectiveness' = learned.action_effectiveness
            /\ collection' = stored.collection
            /\ ret' = IF stored.raised
                      THEN [op |-> "learn_from_outcome", outcome |-> outcome,
                            hypothesis_confidence |-> hypothesis_confidence,
                            pattern_type |-> pattern_type, add_failed |-> add_fails,
                            raised |-> TRUE]
                      ELSE [op |-> "learn_from_outcome", outcome |-> outcome,
                            hypothesis_confidence |-> hypothesis_confidence,
                            pattern_type |-> pattern_type, add_failed |-> add_fails,
                            raised |-> FALSE, result |-> learned.result]
    /\ UNCHANGED <<now, guard_active, exec_active, restores, sleepq, lc, ncalls, outcomes>>

\* The hypothesis confidences a caller supplies (0, 0.6 and 1).
HypothesisConfidences == {0, 60, 100}

LearnActionTypes == {"rate_limit", "adjust_routing"}

\* An ActionOutcome as track_outcome builds it, without rollback.
LearnOutcome(action_type, met, improvement) ==
    [action_id |-> "a1",
     action_type |-> action_type,
     status |-> IF met THEN "success" ELSE "failed",
     improvement_achieved |-> improvement,
     met_expectations |-> met,
     rollback_triggered |-> FALSE,
     rollback_reason |-> NoReason,
     lessons_learned |-> <<>>,
     confidence_adjustment |-> IF met THEN 5 ELSE -10]

\* The improvement last recorded for an action type, 0 before the first.
LastRecorded(action_type) ==
    LET h == Get(action_effectiveness, action_type, <<>>)
    IN IF Len(h) = 0 THEN 0 ELSE h[Len(h)]

\* The learning system under direct calls.  The outcomes of an action type
\* arrive with improvements of 1 %, 2 %, 3 % and so on, which makes the order
\* of arrival visible in the history; the pattern type is the action type
\* (main.py:293).
NextLearn ==
    \E action_type \in LearnActionTypes, met \in BOOLEAN, c \in HypothesisConfidences :
        /\ LastRecorded(action_type) <
               100 * (IF action_type = "rate_limit" THEN MaxLearned ELSE MaxOther)
        /\ LearnCall(LearnOutcome(action_type, met, LastRecorded(action_type) + 100),
                     c, action_type)

SpecLearn == Init /\ [][NextLearn]_vars

(***************************************************************************)
(* learn_from_outcome with and without the knowledge store.                *)
(***************************************************************************)
\* How many outcomes are learned from.
MaxStored == 3

\* Outcomes of two actions, learned from with or without the store, the add
\* call failing or not.
NextStore ==
    \E id \in {"a1", "a2"}, action_type \in LearnActionTypes, met \in BOOLEAN :
        /\ LastRecorded(action_type) < 100 * MaxStored
        /\ LearnCall([LearnOutcome(action_type, met, LastRecorded(action_type) + 100)
                         EXCEPT !.action_id = id],
                     60, action_type)

SpecStore == InitStore /\ [][NextStore]_vars

(***************************************************************************)
(* PaymentOpsAgent.process_module2_output                                  *)
(***************************************************************************)
\* An upstream output: riskLevel in hundredths, successRateChange in
\* thousandths, confidenceInDecision in percent.  It carries no patterns.
Module2Output(id, type, parameters, risk, change, approval, conf) ==
    [decision |->
        [selectedAction |->
            [id |-> id, type |-> type, parameters |-> parameters,
             estimatedImpact |-> [successRateChange |-> change, riskLevel |-> risk]],
         requiresHumanApproval |-> approval,
         confidenceInDecision |-> conf]]

\* An upstream output without a selected action.
NoSelectedAction(approval) ==
    [decision |-> [requiresHumanApproval |-> approval, confidenceInDecision |-> 46]]

type_map ==
    [disable_route |-> "circuit_break", shift_traffic |-> "adjust_routing",
     throttle_path |-> "rate_limit", adjust_retry_policy |-> "modify_retry_config",
     alert_merchant |-> "alert_merchant", do_nothing |-> "do_nothing"]

\* The first element of a list parameter that is present and not empty.
HasTargets(params, key) == key \in DOMAIN params /\ Len(params[key]) > 0

process_module2_output_Translated(module2_output) ==
    LET decision_meta == module2_output.decision
    IN IF "selectedAction" \notin DOMAIN decision_meta
       THEN [escalate |-> FALSE, handle |-> FALSE]
       ELSE
       LET selected == decision_meta.selectedAction
           action_type == Get(type_map, selected.type, "do_nothing")
           params == selected.parameters
           target_dimension == IF HasTargets(params, "targetIssuers") THEN "issuer_bank"
                               ELSE IF HasTargets(params, "targetPaymentMethods")
                               THEN "payment_method"
                               ELSE "issuer_bank"
           target_value == IF HasTargets(params, "targetIssuers")
                           THEN params["targetIssuers"][1]
                           ELSE IF HasTargets(params, "targetPaymentMethods")
                           THEN params["targetPaymentMethods"][1]
                           ELSE Get(params, "target", "unknown")
           risk_score == selected.estimatedImpact.riskLevel
           risk_level == IF risk_score >= 70 THEN "high"
                         ELSE IF risk_score >= 40 THEN "medium"
                         ELSE "low"
           expected_improvement == selected.estimatedImpact.successRateChange * 10
           confidence == decision_meta.confidenceInDecision
           decision == Decision(selected.id, action_type, target_dimension, target_value,
                                params, 60, expected_improvement, risk_level,
                                Min(Max(confidence, 0), 100))
       IN [escalate |-> decision_meta.requiresHumanApproval,
           handle |-> ~decision_meta.requiresHumanApproval,
           decision |-> decision]

Module2RequiresApproval == <<"Module2 requires human approval">>

\* Mutant of process_module2_output: the approval flag is not consulted.
process_module2_output_IgnoresFlag(module2_output) ==
    [process_module2_output_Translated(module2_output) EXCEPT
        !.escalate = FALSE,
        !.handle = "selectedAction" \in DOMAIN module2_output.decision]

\* process_module2_output up to its last statement: the Decision it builds
\* and which of _escalate_to_human and handle_decision it awaits.
process_module2_output(module2_output) ==
    process_module2_output_Translated(module2_output)

Module2Parameters ==
    {[targetIssuers |-> <<"visa">>], [targetPaymentMethods |-> <<"card">>], EmptyDict}

\* The upstream outputs: types of the table and one outside it, with and
\* without the approval flag, risk scores on both sides of 0.4 and 0.7.
Module2Outputs ==
    UNION {{Module2Output(id, type, [targetIssuers |-> <<"visa">>], 60, 70, approval, 75) :
               id \in ActionIds,
               type \in {"disable_route", "shift_traffic", "throttle_path", "reroute"}}
           \cup {Module2Output("a1", "shift_traffic", parameters, 60, 70, approval, 75) :
                    parameters \in Module2Parameters}
           \cup {Module2Output("a1", "shift_traffic", [targetIssuers |-> <<"visa">>],
                                risk, 70, approval, 75) : risk \in {39, 60, 70}}
           \cup {Module2Output("a1", "shift_traffic", [targetIssuers |-> <<"visa">>],
                                60, 70, approval, 46),
                  Module2Output("a1", "disable_route", [targetIssuers |-> <<"visa">>],
                                70, 70, approval, 75)}
           \cup {NoSelectedAction(approval)} :
           approval \in BOOLEAN}

\* How many upstream outputs are processed.
MaxModule2 == 2

\* process_module2_output from its entry to its return or to the first
\* suspension of the handle_decision call it awaits (main.py:305-380).
ProcessModule2Output(l, module2_output) ==
    LET p == process_module2_output(module2_output)
    IN IF p.handle
       THEN HandleDecision(l, p.decision)
       ELSE /\ lc[l].pc = "idle"
            /\ \A k \in 1..(l - 1) : lc[k].pc # "idle"
            /\ p.escalate => FreshOrSeen(p.decision.action_id)
            /\ lc' = [lc EXCEPT ![l] = [pc |-> "done", metrics_queries |-> 0]]
            /\ ret' = IF p.escalate
                      THEN [op |-> "process_module2_output",
                            action_id |-> p.decision.action_id,
                            escalated |-> TRUE, decision |-> p.decision,
                            violations |-> Module2RequiresApproval]
                      ELSE [op |-> "process_module2_output", escalated |-> FALSE]
            /\ UNCHANGED <<now, guard_active, exec_active, restores, sleepq,
                           ncalls, learning>>

\* Time passes until the next timer is due.
TimerTick ==
    /\ NoneDue
    /\ sleepq # <<>>
    /\ now' = CHOOSE t \in {sleepq[j].wake_at : j \in 1..Len(sleepq)} :
                  \A j \in 1..Len(sleepq) : t <= sleepq[j].wake_at
    /\ UNCHANGED <<guard_active, exec_active, restores, sleepq, lc, ret,
                   ncalls, learning>>

NextModule2 ==
    \/ \E l \in 1..MaxModule2 : \E module2_output \in Module2Outputs :
          ProcessModule2Output(l, module2_output)
    \/ \E i \in 1..Len(sleepq) : HandleResume(i)
    \/ \E i \in 1..Len(sleepq) : AutoExpire(i)
    \/ TimerTick

SpecModule2 == Init /\ [][NextModule2]_vars

(***************************************************************************)
(* Timers that fire.                                                       *)
(***************************************************************************)
\* How many calls are made while the timers are followed to their end.
MaxExpiryCalls == 3

\* execute_action called early enough for its timer to fall within MaxTime.
ExecuteInTime(d) ==
    /\ ncalls < MaxExpiryCalls
    /\ now + d.duration_minutes <= MaxTime
    /\ ExecuteCall(d)

\* monitor_action_outcome called early enough for its wait to end within
\* MaxTime.
MonitorInTime(d, baseline_metrics) ==
    /\ ncalls < MaxExpiryCalls
    /\ now + OBSERVATION_WINDOW_MIN <= MaxTime
    /\ MonitorCall(d, baseline_metrics)

NextExpiry ==
    \/ \E d \in DirectDecisions : ExecuteInTime(d)
    \/ \E d \in DirectDecisions, b \in DirectBaselines : MonitorInTime(d, b)
    \/ \E i \in 1..Len(sleepq) : MonitorResume(i)
    \/ \E i \in 1..Len(sleepq) : AutoExpire(i)
    \/ Tick

\* The event loop lets time pass and resumes every coroutine whose sleep has
\* ended: no sleeper that is due waits for ever.
LiveExpiry ==
    /\ Init
    /\ [][NextExpiry]_vars
    /\ WF_vars(Tick)
    /\ WF_vars(\E i \in 1..Len(sleepq) : MonitorResume(i))
    /\ WF_vars(\E i \in 1..Len(sleepq) : AutoExpire(i))

(***************************************************************************)
(* Properties.                                                             *)
(***************************************************************************)
\* The action ids in effect: in the executor's registry with status 'active'.
InEffect == {id \in DOMAIN exec_active : exec_active[id].status = "active"}

\* The last handle_decision call was rejected for the concurrency limit.
RejectedForConcurrency ==
    /\ ret.op = "handle_decision"
    /\ ret.escalated
    /\ \E k \in 1..Len(ret.violations) : ret.violations[k] = "concurrent_actions"

\* C1: in the handle_decision pipeline, with the auto-expiry timers running, at
\* most MAX_CONCURRENT_ACTIONS actions are in the executor's registry with
\* status 'active' at any time.
C1_AtMostThreeInEffect == Cardinality(InEffect) <= MAX_CONCURRENT_ACTIONS

\* Three actions are in effect and a fourth decision was turned away.
C1_Witness == Cardinality(InEffect) = MAX_CONCURRENT_ACTIONS /\ RejectedForConcurrency

\* C7: a lifecycle is registered only in a step that found a free slot, and a
\* step registers one lifecycle: of two lifecycles admitted while one slot
\* remains, one is registered and the guardrail registry never exceeds the limit.
C7_CheckAndRegisterAtomic ==
    [][/\ Len(guard_active') > Len(guard_active) =>
            /\ Len(guard_active) < MAX_CONCURRENT_ACTIONS
            /\ Len(guard_active') = Len(guard_active) + 1
       /\ Len(guard_active') <= MAX_CONCURRENT_ACTIONS]_vars

\* One slot remained, one lifecycle took it and, at the same instant, another
\* was rejected for the concurrency limit.
C7_Witness ==
    /\ Len(guard_active) = MAX_CONCURRENT_ACTIONS
    /\ guard_active[MAX_CONCURRENT_ACTIONS].started_at = now
    /\ guard_active[MAX_CONCURRENT_ACTIONS - 1].started_at < now
    /\ RejectedForConcurrency

\* The step is a return of rollback_action called directly on action id.
RollbackReturned(id) ==
    /\ ncalls' = ncalls + 1
    /\ ret'.op = "rollback_action"
    /\ ret'.action_id = id

\* The step is _auto_expire_action waking up for action id.
TimerFired(id) ==
    /\ Len(sleepq') < Len(sleepq)
    /\ ret'.op = "_auto_expire_action"
    /\ ret'.action_id = id

\* The step is a return of monitor_action_outcome called directly for action id.
MonitorReturned(id) ==
    /\ Len(sleepq') < Len(sleepq)
    /\ ret'.op = "monitor_action_outcome"
    /\ ret'.returned
    /\ ret'.action_id = id

IsRolledBack(id) == id \in DOMAIN exec_active /\ exec_active[id].status = "rolled_back"

IsActive(id) == id \in DOMAIN exec_active /\ exec_active[id].status = "active"

\* C2: rollback_action on an executed action returns success with
\* state_restored true and leaves the status 'rolled_back'; a second call on
\* the same id does not return a second successful restore and leaves the
\* status unchanged.
C2_SecondRollbackIsNoOp ==
    [][\A id \in ActionIds :
          /\ (IsActive(id) /\ RollbackReturned(id)) =>
                /\ ret'.result.status = "success"
                /\ ret'.result.rollback_details.state_restored
                /\ exec_active'[id].status = "rolled_back"
          /\ (IsRolledBack(id) /\ RollbackReturned(id)) =>
                /\ ret'.result.status # "success"
                /\ exec_active'[id].status = "rolled_back"]_vars

\* C3: once an action is rolled back, no later rollback_action call on it
\* overwrites its rollback_reason or rolled_back_at or restores its baseline a
\* second time.
C3_RollbackMetadataKept ==
    [][\A id \in ActionIds :
          (IsRolledBack(id) /\ exec_active'[id].status = "rolled_back") =>
              /\ exec_active'[id].rollback_reason = exec_active[id].rollback_reason
              /\ exec_active'[id].rolled_back_at = exec_active[id].rolled_back_at
              /\ restores'[id] = restores[id]]_vars

\* C4: when its sleep ends, the auto-expiry task rolls an action that is still
\* active back with the reason "Automatic expiration" and makes no rollback
\* call for an action that was already rolled back.
C4_TimerSkipsTerminalAction ==
    [][\A id \in ActionIds :
          /\ (IsActive(id) /\ TimerFired(id)) =>
                /\ ret'.called_rollback
                /\ exec_active'[id].rollback_reason = AutomaticExpiration
          /\ (IsRolledBack(id) /\ TimerFired(id)) => ~ret'.called_rollback]_vars

\* C5: after an action is deregistered from the guardrail registry, its
\* auto-expiry task makes no rollback call.
C5_TimerCancelledOnDeregister ==
    [][\A id \in ActionIds :
          (id \notin Registered /\ TimerFired(id)) => ~ret'.called_rollback]_vars

\* C6: under any sequence of execute_action and rollback_action calls, an
\* action id with status 'rolled_back' never has status 'active' again.
C6_StatusMonotonic ==
    [][\A id \in ActionIds : IsRolledBack(id) => exec_active'[id].status # "active"]_vars

\* C8: after any sequence of register_active_action, deregister_active_action
\* and cleanup_expired_actions calls the guardrail registry holds at most
\* MAX_CONCURRENT_ACTIONS entries.
C8_RegistryNeverOverfull == Len(guard_active) <= MAX_CONCURRENT_ACTIONS

\* C9: an action id is in one lifecycle at a time: the guardrail registry never
\* holds two entries of one id, and while an id is registered its entry in the
\* executor's registry is not written by a second execute_action.
C9_OneLifecyclePerId ==
    [][/\ \A i, j \in 1..Len(guard_active') :
             guard_active'[i].action_id = guard_active'[j].action_id => i = j
       /\ \A id \in DOMAIN exec_active :
             id \in Registered =>
                 /\ exec_active'[id].action = exec_active[id].action
                 /\ exec_active'[id].started_at = exec_active[id].started_at
                 /\ exec_active'[id].status # "active" \/ exec_active[id].status = "active"]_vars

\* C10 as stated: when monitor_action_outcome returns for an executed action
\* the action is terminal: 'rolled_back' if a trigger fired, no longer 'active'
\* otherwise.
C10_TerminalAfterMonitor ==
    [][\A id \in DOMAIN exec_active :
          MonitorReturned(id) =>
              /\ ret'.result.rollback_triggered => exec_active'[id].status = "rolled_back"
              /\ exec_active'[id].status # "active"]_vars

\* C10 as amended: when monitor_action_outcome returns for an executed action,
\* the action is 'rolled_back' if a trigger fired; otherwise the monitor has
\* left the executor's registry as it was, an active action still 'active'.
C10_RolledBackOrLeftAsItWas ==
    [][\A id \in DOMAIN exec_active :
          MonitorReturned(id) =>
              IF ret'.result.rollback_triggered
              THEN exec_active'[id].status = "rolled_back"
              ELSE exec_active' = exec_active /\ restores' = restores]_vars

\* The monitor returned without a trigger and the action is still 'active'.
C10_Witness ==
    /\ ret.op = "monitor_action_outcome"
    /\ ret.returned
    /\ ~ret.result.rollback_triggered
    /\ IsActive(ret.action_id)

\* The monitor of the pipeline is still in its observation wait for action id.
MonitorPending(id) ==
    \E j \in 1..Len(sleepq) :
        /\ sleepq[j].kind = "monitor"
        /\ sleepq[j].owner \in Lifecycles
        /\ lc[sleepq[j].owner].decision.action_id = id

\* C11: for every accepted and executed decision the observation wait of the
\* monitor ends before the auto-expiry timer fires: the timer never fires for
\* an action whose monitor is still waiting.
C11_MonitorBeforeExpiry ==
    [][\A id \in ActionIds : TimerFired(id) => ~MonitorPending(id)]_vars

\* A handle_decision call for an admitted decision has ended, by returning or
\* by raising.
LifecycleEnded == ret.op = "handle_decision" /\ ~ret.escalated

\* C12: an action a lifecycle registered is deregistered on every path of the
\* lifecycle, also when the metrics query or the learning step raises: once
\* handle_decision has ended, the action is not in the guardrail registry.
C12_DeregisteredOnEveryPath == LifecycleEnded => ret.action_id \notin Registered

\* The last call was validate_action.
Validated == ret.op = "validate_action"

\* The violations list v has an entry of the given kind.
Has(v, tag) == \E k \in 1..Len(v) : v[k] = tag

\* C13: a decision with confidence below 0.6 is rejected with a confidence
\* violation; every accepted decision has confidence of at least 0.6.
C13_LowConfidenceRejected ==
    Validated =>
        /\ ret.action.confidence < 60 =>
               ~ret.result.is_valid /\ Has(ret.result.violations, "confidence")
        /\ ret.result.is_valid => ret.action.confidence >= 60

\* A decision with confidence 0.59 and nothing else wrong was rejected.
C13_Witness ==
    /\ Validated
    /\ ret.action.confidence = 59
    /\ ret.result.violations = <<"confidence">>

\* C14: whatever the decision, when the guardrail registry holds
\* MAX_CONCURRENT_ACTIONS (3) or more entries validate_action rejects it with
\* a concurrency violation.
C14_FullRegistryRejects ==
    (Validated /\ Len(guard_active) >= 3) =>
        ~ret.result.is_valid /\ Has(ret.result.violations, "concurrent_actions")

\* With three entries registered, a decision with nothing else wrong was
\* rejected for the concurrency limit alone.
C14_Witness ==
    /\ Validated
    /\ Len(guard_active) = 3
    /\ ret.result.violations = <<"concurrent_actions">>

\* The rule of validate_action, in the order of the rule list, that an entry
\* of the violations list reports.
RuleOf(tag) ==
    CASE tag = "confidence" -> 1
      [] tag = "concurrent_actions" -> 2
      [] tag \in {"traffic_reduction", "retry_increase", "circuit_break_not_high_risk"} -> 3
      [] tag = "duration" -> 4
      [] tag = "human_approval" -> 5
      [] tag \in {"critical_issuer", "critical_payment_method"} -> 6

\* The target of the action is on the list of critical entities.
CriticalTarget(action) ==
    \/ action.target_dimension = "issuer_bank"
         /\ action.target_value \in {"CHASE", "HDFC", "ICICI"}
    \/ action.target_dimension = "payment_method" /\ action.target_value = "card"

\* Rule r of the rule list fails for the action with n registered actions.
RuleFails(r, action, n) ==
    CASE r = 1 -> action.confidence < 60
      [] r = 2 -> n >= 3
      [] r = 3 ->
           \/ action.action_type = "rate_limit"
                /\ Get(action.parameters, "reduction_pct", 0) > 50
           \/ action.action_type = "modify_retry_config"
                /\ action.parameters.new_max_retries
                       > 3 * action.parameters.current_max_retries
           \/ action.action_type = "circuit_break"
                /\ action.estimated_risk_level # "high"
      [] r = 4 -> action.duration_minutes < 5 \/ action.duration_minutes > 180
      [] r = 5 -> action.estimated_risk_level = "high"
      [] r = 6 -> action.action_type = "circuit_break" /\ CriticalTarget(action)

\* The rule list says whether rule r fails for the action: the retry ratio
\* new / current is defined when current_max_retries is positive.
RuleDecided(r, action) ==
    (r = 3 /\ action.action_type = "modify_retry_config") =>
        action.parameters.current_max_retries > 0

\* C15: validate_action evaluates every rule, with no short-circuit: the
\* violations list has one entry per failed rule, in the order of the rule
\* list, and the decision is accepted exactly when the list is empty.
C15_EveryRuleReportedInOrder ==
    Validated =>
        LET v == ret.result.violations
        IN /\ \A k \in 1..(Len(v) - 1) : RuleOf(v[k]) < RuleOf(v[k + 1])
           /\ \A r \in 1..6 :
                 RuleDecided(r, ret.action) =>
                     ((\E k \in 1..Len(v) : RuleOf(v[k]) = r)
                          <=> RuleFails(r, ret.action, Len(guard_active)))
           /\ ret.result.is_valid <=> (Len(v) = 0)

\* Five rules failed at once and all five were reported, in order.
C15_Witness ==
    /\ Validated
    /\ ret.result.violations =
           <<"confidence", "concurrent_actions", "duration", "human_approval",
             "critical_issuer">>

\* C16: validate_action has no side effect: the guardrail registry and the
\* executor's registry are the same before and after the call, whether the
\* decision is accepted or rejected.
C16_ValidationChangesNothing ==
    [][ret'.op = "validate_action" =>
           /\ guard_active' = guard_active
           /\ exec_active' = exec_active
           /\ sleepq' = sleepq]_vars

\* A decision was accepted while two actions were registered.
C16_Witness ==
    /\ Validated
    /\ ret.result.is_valid
    /\ Len(guard_active) = 2

\* C17: every high-risk decision is rejected with a human-approval violation,
\* whatever its action type and target.
C17_HighRiskNeedsApproval ==
    (Validated /\ ret.action.estimated_risk_level = "high") =>
        ~ret.result.is_valid /\ Has(ret.result.violations, "human_approval")

\* A high-risk routing adjustment was rejected for the approval alone.
C17_Witness ==
    /\ Validated
    /\ ret.action.action_type = "adjust_routing"
    /\ ret.action.estimated_risk_level = "high"
    /\ ret.result.violations = <<"human_approval">>

\* C18: a circuit_break whose target is a critical entity is rejected with a
\* critical-infrastructure violation, and when it is also high risk the same
\* result holds the human-approval violation too.
C18_CriticalTargetProtected ==
    (Validated /\ ret.action.action_type = "circuit_break" /\ CriticalTarget(ret.action)) =>
        /\ ~ret.result.is_valid
        /\ \/ Has(ret.result.violations, "critical_issuer")
           \/ Has(ret.result.violations, "critical_payment_method")
        /\ ret.action.estimated_risk_level = "high" =>
               Has(ret.result.violations, "human_approval")

\* A high-risk circuit break of CHASE with confidence 0.9 got both violations.
C18_Witness ==
    /\ Validated
    /\ ret.action.action_type = "circuit_break"
    /\ ret.action.target_value = "CHASE"
    /\ ret.action.confidence = 90
    /\ ret.result.violations = <<"human_approval", "critical_issuer">>

\* C19: a rate_limit with reduction_pct above 50 is rejected with a
\* traffic-reduction violation even when its confidence suffices; a
\* reduction_pct of exactly 50 raises no traffic-reduction violation.
C19_TrafficReductionLimit ==
    (Validated /\ ret.action.action_type = "rate_limit"
               /\ "reduction_pct" \in DOMAIN ret.action.parameters) =>
        /\ ret.action.parameters.reduction_pct > 50 =>
               ~ret.result.is_valid /\ Has(ret.result.violations, "traffic_reduction")
        /\ ret.action.parameters.reduction_pct = 50 =>
               ~Has(ret.result.violations, "traffic_reduction")

\* A rate limit of 75 % with sufficient confidence was rejected for the
\* reduction alone.
C19_Witness ==
    /\ Validated
    /\ ret.action.action_type = "rate_limit"
    /\ ret.action.parameters = [reduction_pct |-> 75]
    /\ ret.action.confidence >= 60
    /\ ret.result.violations = <<"traffic_reduction">>

\* C20: rollback_action on an action id that is not in the executor's registry
\* returns the error result 'Action not found' and leaves the registry as it
\* was.
C20_UnknownIdIsAnError ==
    [][\A id \in ActionIds :
          (id \notin DOMAIN exec_active /\ RollbackReturned(id)) =>
              /\ ret'.result = [status |-> "error", message |-> "Action not found"]
              /\ exec_active' = exec_active
              /\ restores' = restores]_vars

\* rollback_action returned the error for an id the executor, which holds
\* another action, does not know.
C20_Witness ==
    /\ ret.op = "rollback_action"
    /\ ret.result.status = "error"
    /\ ret.action_id \notin DOMAIN exec_active
    /\ DOMAIN exec_active # {}

\* The step is a return of execute_action called directly.
ExecuteReturned ==
    /\ ncalls' = ncalls + 1
    /\ ret'.op = "execute_action"

\* The entries get_active_actions lists all have status 'active'.
AllListedActive(registry) ==
    \A e \in get_active_actions(registry) : e.status = "active"

\* The entries get_active_actions lists have status 'active' until the
\* action is rolled back.
ListedActiveUntilRolledBack(registry, restored) ==
    \A e \in get_active_actions(registry) :
        restored[e.action_id] = 0 => e.status = "active"

C22_FailedExecutionLeavesNoTrace ==
    [][ExecuteReturned =>
           /\ ret'.result.status \in {"success", "failed"}
           /\ ret'.action.action_type = "unknown_type" => ret'.result.status = "failed"
           /\ ret'.result.status = "failed" =>
                  /\ ret'.result.baseline_snapshot.timestamp = now
                  /\ ret'.result.baseline_snapshot.routing_config
                         = _get_system_state.routing_config
                  /\ exec_active' = exec_active
                  /\ sleepq' = sleepq]_vars

\* An execution of an unknown action type failed while the executor held
\* another action.
C22_Witness ==
    /\ ret.op = "execute_action"
    /\ ret.result.status = "failed"
    /\ ret.action_id \notin DOMAIN exec_active
    /\ DOMAIN exec_active # {}

\* The step is a return of monitor_action_outcome called directly.
MonitorDone ==
    /\ Len(sleepq') < Len(sleepq)
    /\ ret'.op = "monitor_action_outcome"
    /\ ret'.returned

\* The relative improvement of current over baseline, both in per mille, is
\* below pct percent; a baseline of 0 counts as an improvement of 0.
ImprovementBelow(baseline, current, pct) ==
    IF baseline > 0
    THEN (current - baseline) * 100 < pct * baseline
    ELSE 0 < pct

\* One of the three readings is above its limit: error rate 0.15, p95
\* latency 5000 ms, timeout rate 0.10.
AnomalyReading(m) ==
    \/ Get(m, "error_rate", 0) > 150
    \/ Get(m, "p95_latency_ms", 0) > 5000
    \/ Get(m, "timeout_rate", 0) > 100

\* The trigger that decides for a baseline and a reading, by priority:
\* the text of its reason, or None when no trigger fires.
FirstTrigger(b, m) ==
    LET base == Get(b, "success_rate", 0)
        cur == Get(m, "success_rate", 0)
    IN IF ImprovementBelow(base, cur, -5) THEN "Degradation detected"
       ELSE IF ImprovementBelow(base, cur, 2) THEN "Insufficient improvement"
       ELSE IF AnomalyReading(m) THEN "New anomalies detected after intervention"
       ELSE None

\* C23: monitor_action_outcome decides by the first trigger that matches:
\* improvement below -5.0 gives the degradation reason, else improvement below
\* 2.0 the insufficient-improvement reason, else a reading above 0.15 error
\* rate, 5000 ms p95 latency or 0.10 timeout rate the new-anomaly reason;
\* baseline 0.82 with current 0.70 gives the degradation reason.
C23_FirstTriggerDecides ==
    [][MonitorDone =>
           LET trigger == FirstTrigger(ret'.baseline_metrics, ret'.current_metrics)
           IN /\ trigger # None =>
                     /\ ret'.result.rollback_triggered
                     /\ ret'.result.rollback_reason.text = trigger
              /\ trigger = None => ~ret'.result.rollback_triggered
              /\ (/\ Get(ret'.baseline_metrics, "success_rate", 0) = 820
                  /\ Get(ret'.current_metrics, "success_rate", 0) = 700) =>
                     ret'.result.rollback_reason.text = "Degradation detected"]_vars

\* Baseline 0.82 and current 0.70, with the error rate above its limit as
\* well: the degradation reason was given.
C23_Witness ==
    /\ ret.op = "monitor_action_outcome"
    /\ ret.returned
    /\ ret.baseline_metrics = Metrics(820, 180, 3500, 50)
    /\ ret.current_metrics = Metrics(700, 151, 5000, 100)
    /\ ret.result.rollback_reason.text = "Degradation detected"

\* imp is the relative improvement of current over baseline in hundredths of
\* a percent, rounded down; 0 for a baseline of 0.
IsImprovement(imp, baseline, current) ==
    IF baseline > 0
    THEN /\ imp * baseline <= (current - baseline) * 10000
         /\ (current - baseline) * 10000 < (imp + 1) * baseline
    ELSE imp = 0

\* C24: monitor_action_outcome calls rollback_action once, with the matched
\* reason, and reports rollback_triggered = true exactly when one of the three
\* triggers fires; when none fires it makes no rollback call and reports
\* rollback_triggered = false with the computed improvement.
C24_RollbackIffTriggered ==
    [][MonitorDone =>
           LET id == ret'.action_id
               r == ret'.result
               fired == FirstTrigger(ret'.baseline_metrics, ret'.current_metrics) # None
           IN /\ r.rollback_triggered <=> fired
              /\ IsImprovement(r.improvement_pct,
                               Get(ret'.baseline_metrics, "success_rate", 0),
                               Get(ret'.current_metrics, "success_rate", 0))
              /\ fired =>
                     /\ "rollback_result" \in DOMAIN r
                     /\ IF id \in DOMAIN exec_active
                        THEN /\ r.rollback_result.status = "success"
                             /\ exec_active'[id].status = "rolled_back"
                             /\ exec_active'[id].rollback_reason = r.rollback_reason
                             /\ exec_active'[id].rolled_back_at = now
                             /\ restores'[id] = Min(restores[id] + 1, MaxRestores)
                        ELSE /\ r.rollback_result.status = "error"
                             /\ exec_active' = exec_active
                             /\ restores' = restores
                     /\ \A other \in ActionIds \ {id} : restores'[other] = restores[other]
              /\ ~fired =>
                     /\ "rollback_result" \notin DOMAIN r
                     /\ "rollback_reason" \notin DOMAIN r
                     /\ exec_active' = exec_active
                     /\ restores' = restores]_vars

\* The new-anomaly trigger fired for an active action: the monitor reported the
\* rollback and the action was rolled back once, with that reason.
C24_Witness ==
    /\ ret.op = "monitor_action_outcome"
    /\ ret.returned
    /\ ret.result.rollback_triggered
    /\ ret.result.rollback_reason.text = "New anomalies detected after intervention"
    /\ IsRolledBack(ret.action_id)
    /\ exec_active[ret.action_id].rollback_reason = ret.result.rollback_reason
    /\ restores[ret.action_id] = 1

\* The step is a return of track_outcome called directly.
TrackReturned ==
    /\ Len(outcomes') = Len(outcomes) + 1
    /\ ret'.op = "track_outcome"

\* The relative improvement of current over baseline (per mille) is at least
\* tenths/10 of expected (hundredths of a percent); 0 for a baseline of 0.
ImprovementReaches(baseline, current, expected, tenths) ==
    IF baseline > 0
    THEN (current - baseline) * 100000 >= expected * tenths * baseline
    ELSE 0 >= expected * tenths

\* The same relation, strict.
ImprovementExceeds(baseline, current, expected, tenths) ==
    IF baseline > 0
    THEN (current - baseline) * 100000 > expected * tenths * baseline
    ELSE 0 > expected * tenths

\* A rollback occurred, by the rollback_info given to track_outcome.
RollbackOccurred(info) ==
    /\ "rollback_triggered" \in DOMAIN info
    /\ info.rollback_triggered

\* C27: track_outcome sets met_expectations to improvement >= 0.8 * expected
\* and gives the outcome one status out of success, failed and rolled_back:
\* rolled_back if a rollback occurred, else success if expectations were met,
\* else failed.  Baseline 0.82, current 0.89 and expected 8.0 give an
\* improvement of about 8.54, met_expectations true and status success.
C27_StatusFromExpectations ==
    [][TrackReturned =>
           LET o == ret'.result
               base == Get(ret'.baseline_metrics, "success_rate", 0)
               cur == Get(ret'.current_metrics, "success_rate", 0)
               expected == ret'.action.expected_improvement_pct
           IN /\ o = outcomes'[Len(outcomes')]
              /\ o.met_expectations <=> ImprovementReaches(base, cur, expected, 8)
              /\ o.status \in {"success", "failed", "rolled_back"}
              /\ o.status = IF RollbackOccurred(ret'.rollback_info) THEN "rolled_back"
                            ELSE IF o.met_expectations THEN "success"
                            ELSE "failed"
              /\ (base = 820 /\ cur = 890 /\ expected = 800
                     /\ ~RollbackOccurred(ret'.rollback_info)) =>
                     /\ o.improvement_achieved = 853
                     /\ o.met_expectations
                     /\ o.status = "success"]_vars

\* Baseline 0.82, current 0.89, expected 8.0, no rollback: the outcome is a
\* success with an improvement of 8.53 %.
C27_Witness ==
    /\ ret.op = "track_outcome"
    /\ Get(ret.baseline_metrics, "success_rate", 0) = 820
    /\ Get(ret.current_metrics, "success_rate", 0) = 890
    /\ ret.action.expected_improvement_pct = 800
    /\ ret.rollback_info = NoRollbackInfo
    /\ ret.result.status = "success"
    /\ ret.result.improvement_achieved = 853
    /\ outcomes = <<ret.result>>

\* C28: the confidence adjustment of an outcome is -0.2 when expectations
\* were not met and the improvement is negative, -0.1 when not met and the
\* improvement is not negative, +0.15 when met and the improvement exceeds
\* 1.5 times the expectation, +0.1 when met and it exceeds the expectation,
\* +0.05 when met within the tolerance only; it is positive exactly when
\* expectations were met.
C28_ConfidenceAdjustmentTable ==
    [][TrackReturned =>
           LET o == ret'.result
               base == Get(ret'.baseline_metrics, "success_rate", 0)
               cur == Get(ret'.current_metrics, "success_rate", 0)
               expected == ret'.action.expected_improvement_pct
               negative == base > 0 /\ cur < base
           IN /\ o.confidence_adjustment =
                     IF ~o.met_expectations
                     THEN IF negative THEN -20 ELSE -10
                     ELSE IF ImprovementExceeds(base, cur, expected, 15) THEN 15
                     ELSE IF ImprovementExceeds(base, cur, expected, 10) THEN 10
                     ELSE 5
              /\ o.confidence_adjustment > 0 <=> o.met_expectations]_vars

\* The improvement reached the tolerance but not the expectation (6.46 %
\* against 8.0 %): the adjustment is +0.05.
C28_Witness ==
    /\ ret.op = "track_outcome"
    /\ Get(ret.baseline_metrics, "success_rate", 0) = 820
    /\ Get(ret.current_metrics, "success_rate", 0) = 873
    /\ ret.action.expected_improvement_pct = 800
    /\ ret.result.met_expectations
    /\ ret.result.confidence_adjustment = 5

\* C25: with a baseline success rate of 0, or none, monitor_action_outcome
\* and track_outcome both return an improvement of exactly 0, whatever the
\* current success rate is.
C25_ZeroBaselineZeroImprovement ==
    [][/\ (MonitorDone /\ Get(ret'.baseline_metrics, "success_rate", 0) = 0) =>
              /\ ret'.result.improvement_pct = 0
              /\ ret'.result.baseline_success_rate = 0
       /\ (TrackReturned /\ Get(ret'.baseline_metrics, "success_rate", 0) = 0) =>
              ret'.result.improvement_achieved = 0]_vars

\* The monitor returned an improvement of 0 for a baseline success rate of 0
\* and a current one of 1.0, after track_outcome had recorded an improvement
\* of 0 as well.
C25_Witness ==
    /\ ret.op = "monitor_action_outcome"
    /\ ret.returned
    /\ ret.baseline_metrics = Metrics(0, 180, 3500, 50)
    /\ Get(ret.current_metrics, "success_rate", 0) = 1000
    /\ ret.result.improvement_pct = 0
    /\ Len(outcomes) = 1
    /\ outcomes[1].improvement_achieved = 0

\* Lifecycle l is in its observation wait.
Observing(l) == lc[l].pc = "observing"

\* C26: in a lifecycle of handle_decision the metrics query is not called
\* during the observation wait; it is called once by monitor_action_outcome
\* when the wait has ended and once more for the final assessment, two calls
\* in all, and not again afterwards.
C26_TwoQueriesAfterTheWait ==
    [][\A l \in Lifecycles :
          /\ Observing(l) => lc[l].metrics_queries = 0
          /\ (Observing(l) /\ lc'[l] # lc[l]) =>
                 /\ lc'[l].pc = "done"
                 /\ lc'[l].metrics_queries = 2
                 /\ now' = now
                 /\ \E i \in 1..Len(sleepq) :
                       /\ sleepq[i].kind = "monitor"
                       /\ sleepq[i].owner = l
                       /\ sleepq[i].wake_at <= now
                       /\ sleepq' = RemoveAt(sleepq, i)
          /\ lc[l].pc = "done" => lc'[l] = lc[l]]_vars

\* One lifecycle has ended with its two queries made while another, started
\* later, is still in its wait with none.
C26_Witness ==
    \E l, k \in Lifecycles :
        /\ lc[l].pc = "done"
        /\ "metrics_queries" \in DOMAIN lc[l]
        /\ lc[l].metrics_queries = 2
        /\ lc[k].pc = "observing"
        /\ lc[k].metrics_queries = 0

\* The step is a return of learn_from_outcome called directly.
LearnReturned == ret'.op = "learn_from_outcome" /\ ret' # ret

\* C29 as stated: every stored pattern confidence lies in [0.3, 0.95].
C29_PatternConfidenceInRange ==
    \A p \in DOMAIN pattern_confidences :
        30 <= pattern_confidences[p] /\ pattern_confidences[p] <= 95

\* C29 as amended: a correct outcome sets the pattern confidence to
\* min(0.95, current + 0.05) and an incorrect one to max(0.3, current - 0.1),
\* current being the hypothesis confidence at the first observation of the
\* pattern; every stored confidence is at most 0.95, and at least 0.3 after an
\* incorrect outcome and from then on (after correct outcomes only it can lie
\* below 0.3, the seed being below 0.25); a confidence of 0.95 stays there
\* under correct outcomes and one of 0.3 under incorrect ones.
C29_PatternConfidenceBounded ==
    [][LearnReturned =>
           LET p == ret'.pattern_type
               current == IF p \in DOMAIN pattern_confidences
                          THEN pattern_confidences[p]
                          ELSE ret'.hypothesis_confidence
               new == pattern_confidences'[p]
           IN /\ new = IF ret'.outcome.met_expectations
                       THEN Min(95, current + 5)
                       ELSE Max(30, current - 10)
              /\ new <= 95
              /\ ~ret'.outcome.met_expectations => new >= 30
              /\ (p \in DOMAIN pattern_confidences /\ current >= 30) => new >= 30
              /\ (current = 95 /\ ret'.outcome.met_expectations) => new = 95
              /\ (current = 30 /\ ~ret'.outcome.met_expectations) => new = 30
              /\ \A q \in DOMAIN pattern_confidences \ {p} :
                     pattern_confidences'[q] = pattern_confidences[q]]_vars

\* One pattern has reached 0.95 by a correct outcome while the other, seeded
\* with 0 and correct once, is stored as 0.05.
C29_Witness ==
    /\ ret.op = "learn_from_outcome"
    /\ ret.outcome.met_expectations
    /\ DOMAIN pattern_confidences = LearnActionTypes
    /\ pattern_confidences[ret.pattern_type] = 95
    /\ \E q \in LearnActionTypes : pattern_confidences[q] = 5

\* The last n entries of a sequence, all of them when it has fewer.
LastEntries(h, n) == SubSeq(h, Max(1, Len(h) - n + 1), Len(h))

\* C30: the improvement history of an action type holds at most 20 entries,
\* the most recent improvements recorded for that type in arrival order (a
\* full history drops its oldest entry); recording for one action type leaves
\* the histories of the others unchanged.
C30_HistoryKeepsLastTwenty ==
    [][LearnReturned =>
           LET t == ret'.outcome.action_type
               before == Get(action_effectiveness, t, <<>>)
               after == action_effectiveness'[t]
           IN /\ after = LastEntries(Append(before, ret'.outcome.improvement_achieved), 20)
              /\ Len(after) <= 20
              /\ \A i \in 1..Len(after) :
                     after[i] = LastRecorded(t) + 100 - 100 * (Len(after) - i)
              /\ get_action_effectiveness(action_effectiveness', t).sample_size = Len(after)
              /\ get_action_effectiveness(action_effectiveness', t).recent_improvements
                     = LastEntries(after, 5)
              /\ DOMAIN action_effectiveness' = DOMAIN action_effectiveness \cup {t}
              /\ \A u \in DOMAIN action_effectiveness \ {t} :
                     action_effectiveness'[u] = action_effectiveness[u]]_vars

\* Twenty-one improvements were recorded for rate_limit, the history holding
\* the 2nd to the 21st, and one for adjust_routing.
C30_Witness ==
    /\ DOMAIN action_effectiveness = LearnActionTypes
    /\ Len(action_effectiveness["rate_limit"]) = 20
    /\ action_effectiveness["rate_limit"][1] = 200
    /\ action_effectiveness["rate_limit"][20] = 2100
    /\ action_effectiveness["adjust_routing"] = <<100>>

\* C31: when the knowledge store is unavailable, or its add call fails,
\* learn_from_outcome does not raise: it updates the pattern confidence and
\* the history of the action type and returns the LearningEntry.
C31_LearnsWithoutTheStore ==
    [][(LearnReturned /\ (~collection.available \/ ret'.add_failed)) =>
           LET o == ret'.outcome
               p == ret'.pattern_type
               current == Get(pattern_confidences, p, ret'.hypothesis_confidence)
               before == Get(action_effectiveness, o.action_type, <<>>)
           IN /\ ~ret'.raised
              /\ "result" \in DOMAIN ret'
              /\ ret'.result.incident_id = o.action_id
              /\ ret'.result.improvement_achieved = o.improvement_achieved
              /\ pattern_confidences'[p] = IF o.met_expectations
                                           THEN Min(95, current + 5)
                                           ELSE Max(30, current - 10)
              /\ action_effectiveness'[o.action_type]
                     = Append(before, o.improvement_achieved)
              /\ collection' = collection]_vars

\* The add call failed for the second outcome after the first was stored:
\* the entry was returned and both outcomes are in the history.
C31_Witness ==
    /\ ret.op = "learn_from_outcome"
    /\ ret.add_failed
    /\ ret.outcome.action_id = "a2"
    /\ collection = [available |-> TRUE, ids |-> {"a1"}]
    /\ ret.result.incident_id = "a2"
    /\ Len(action_effectiveness[ret.outcome.action_type]) = 2

\* The pipeline state a decision's handling can change.
PipelineState ==
    <<now, guard_active, exec_active, restores, sleepq, outcomes,
      pattern_confidences, action_effectiveness, collection>>

\* C32: an upstream output with requiresHumanApproval true is escalated and
\* nothing else happens to it: no validation, registration, execution,
\* monitoring or learning, both registries unchanged; with the flag false the
\* translated decision is passed to handle_decision.
C32_ApprovalFlagBypassesExecution ==
    [][\A l \in 1..MaxModule2 : \A out \in Module2Outputs :
         (/\ lc[l].pc = "idle" /\ lc'[l].pc # "idle"
          /\ "selectedAction" \in DOMAIN out.decision
          /\ ProcessModule2Output(l, out)) =>
            LET selected == out.decision.selectedAction
                translated ==
                    [action_id |-> selected.id,
                     action_type |-> CASE selected.type = "disable_route" -> "circuit_break"
                                       [] selected.type = "shift_traffic" -> "adjust_routing"
                                       [] selected.type = "throttle_path" -> "rate_limit"
                                       [] OTHER -> "do_nothing",
                     target_dimension |-> IF "targetPaymentMethods" \in DOMAIN selected.parameters
                                          THEN "payment_method" ELSE "issuer_bank",
                     target_value |-> IF "targetIssuers" \in DOMAIN selected.parameters
                                      THEN "visa"
                                      ELSE IF "targetPaymentMethods" \in DOMAIN selected.parameters
                                      THEN "card" ELSE "unknown",
                     parameters |-> selected.parameters,
                     duration_minutes |-> 60,
                     expected_improvement_pct |-> 700,
                     estimated_risk_level |-> IF selected.estimatedImpact.riskLevel = 39
                                              THEN "low"
                                              ELSE IF selected.estimatedImpact.riskLevel = 60
                                              THEN "medium" ELSE "high",
                     confidence |-> out.decision.confidenceInDecision]
            IN IF out.decision.requiresHumanApproval
               THEN /\ UNCHANGED PipelineState
                    /\ ret'.op = "process_module2_output"
                    /\ ret'.escalated
                    /\ ret'.decision = translated
                    /\ ret'.violations = Module2RequiresApproval
               ELSE HandleDecision(l, translated)]_vars

\* An upstream output whose translation validate_action would accept was
\* escalated for its approval flag, one action being under observation.
C32_Witness ==
    /\ ret.op = "process_module2_output"
    /\ ret.escalated
    /\ ret.decision.action_type = "adjust_routing"
    /\ validate_action(ret.decision, guard_active).is_valid
    /\ Len(guard_active) = 1
    /\ ret.decision.action_id \notin DOMAIN exec_active

\* C33: in the pipeline a decision that validate_action rejects is escalated
\* and nothing else: neither registry gains it, no timer is scheduled, no
\* metrics are fetched, the tracker and the learning system record nothing,
\* and the call has returned, never to run again.
C33_RejectedDecisionLeavesNoTrace ==
    [][\A l \in Lifecycles :
         /\ (lc[l].pc = "idle" /\ lc'[l].pc # "idle") =>
               \A d \in PipelineDecisions :
                  (HandleDecision(l, d) /\ ~validate_action(d, guard_active).is_valid) =>
                     /\ ret'.op = "handle_decision"
                     /\ ret'.escalated
                     /\ ret'.violations = validate_action(d, guard_active).violations
                     /\ UNCHANGED PipelineState
                     /\ lc'[l].pc = "done"
                     /\ lc'[l].metrics_queries = 0
         /\ lc[l].pc = "done" => lc'[l] = lc[l]]_vars

\* A decision was rejected while three actions were under observation, and
\* the rejected one is in neither registry.
C33_Witness ==
    /\ ret.op = "handle_decision"
    /\ ret.escalated
    /\ Len(guard_active) = 3
    /\ \A i \in 1..Len(guard_active) : guard_active[i].action_id # ret.action_id
    /\ ret.action_id \notin DOMAIN exec_active
    /\ \E l \in Lifecycles : lc[l] = [pc |-> "done", metrics_queries |-> 0]

\* C34: a modify_retry_config decision gets the retry-increase violation
\* exactly when its new retry count is more than MAX_RETRY_INCREASE times its
\* current one, whatever the current count, 0 included; a ratio of exactly 3
\* passes.
C34_RetryRatioBounded ==
    (Validated /\ ret.action.action_type = "modify_retry_config") =>
        LET p == ret.action.parameters
        IN Has(ret.result.violations, "retry_increase")
               <=> (p.new_max_retries > 3 * p.current_max_retries)

\* C35: for every action type a duration below 5 or above 180 minutes gives
\* a duration violation and a duration from 5 to 180, the bounds included,
\* gives none; every accepted decision has its duration in [5, 180].
C35_DurationWithinBounds ==
    Validated =>
        LET dur == ret.action.duration_minutes
        IN /\ Has(ret.result.violations, "duration") <=> (dur < 5 \/ dur > 180)
           /\ ret.result.is_valid => (5 <= dur /\ dur <= 180)

\* A decision lasting exactly 180 minutes was accepted.
C35_Witness ==
    /\ Validated
    /\ ret.result.is_valid
    /\ ret.action.duration_minutes = 180
    /\ ret.action.action_type = "modify_retry_config"

\* The circuit_break decisions that pass every check not about their type:
\* confident enough, of allowed duration, on every target and risk level.
CircuitBreaks ==
    {d \in DecisionsOfType("circuit_break") :
        d.confidence = 90 /\ d.duration_minutes = 5}

\* C36: validate_action accepts no circuit_break, which has to be marked high
\* risk and, being high risk, needs human approval; so no circuit_break is in
\* either registry or has a timer, whichever of handle_decision and
\* process_module2_output it came through.
C36_NoCircuitBreakExecuted ==
    /\ \A d \in CircuitBreaks :
          LET v == validate_action(d, guard_active)
          IN /\ ~v.is_valid
             /\ IF d.estimated_risk_level = "high"
                THEN Has(v.violations, "human_approval")
                ELSE Has(v.violations, "circuit_break_not_high_risk")
    /\ \A id \in DOMAIN exec_active :
          exec_active[id].action.action_type # "circuit_break"
    /\ \A i \in 1..Len(guard_active) : guard_active[i].action_type # "circuit_break"
    /\ \A l \in Lifecycles :
          lc[l].pc = "observing" => lc[l].decision.action_type # "circuit_break"

\* A disable_route output not flagged for approval was translated, handed
\* to handle_decision and rejected for not being high risk, the registry
\* having room for it.
C36_Witness ==
    /\ ret.op = "handle_decision"
    /\ ret.escalated
    /\ ret.violations = <<"circuit_break_not_high_risk">>
    /\ Len(guard_active) = 1

\* The success rates _get_current_metrics may have shown before the action.
PreActionSuccessRates == {m.success_rate : m \in PipelineMetrics}

\* C37: in the pipeline the monitor measures the improvement against the
\* success rate observed before the action: when the success rate after the
\* observation window is at least 2 % above it and no anomaly threshold is
\* exceeded, the monitor does not roll the action back.
C37_ImprovedActionIsKept ==
    (ret.op = "handle_decision" /\ ~ret.escalated) =>
        \A pre \in PreActionSuccessRates :
            (/\ ret.current_metrics.success_rate * 100 >= 102 * pre
             /\ ~_detect_new_anomalies(ret.current_metrics)) =>
                ~ret.rollback_info.rollback_triggered

\* C38: whenever monitor_action_outcome returns rollback_triggered true, the
\* action is in the executor's registry with status rolled_back; a rollback
\* call answered with the "Action not found" error is not reported as a
\* triggered rollback.
C38_TriggeredMeansRolledBack ==
    [][(MonitorDone /\ ret'.result.rollback_triggered) =>
           /\ ret'.action_id \in DOMAIN exec_active'
           /\ exec_active'[ret'.action_id].status = "rolled_back"
           /\ ret'.result.rollback_result.status # "error"]_vars

\* C39: every Outcome track_outcome produces, whatever rollback_info it was
\* given (none, a monitor result with a rollback, a monitor result without
\* one), has rollback_triggered true exactly when its status is rolled_back.
C39_RollbackFlagMatchesStatus ==
    (/\ ret.op = "track_outcome"
     /\ \/ ~IsNotNone(ret.rollback_info)
        \/ "rollback_triggered" \in DOMAIN ret.rollback_info) =>
        (ret.result.rollback_triggered <=> (ret.result.status = "rolled_back"))

\* C40: every action execute_action registers eventually has status
\* rolled_back, timers firing: the auto-expiry task rolls back an action
\* still active at its deadline with reason "Automatic expiration", and no
\* step removes an entry from the executor's registry.
C40_EveryRegisteredActionRolledBack ==
    /\ [][/\ DOMAIN exec_active \subseteq DOMAIN exec_active'
          /\ (/\ Len(sleepq') < Len(sleepq)
              /\ ret'.op = "_auto_expire_action"
              /\ ret'.action_id \in DOMAIN exec_active
              /\ exec_active[ret'.action_id].status = "active") =>
                 /\ exec_active'[ret'.action_id].status = "rolled_back"
                 /\ exec_active'[ret'.action_id].rollback_reason = AutomaticExpiration
                 /\ exec_active'[ret'.action_id].rolled_back_at = now]_vars
    /\ \A id \in ActionIds :
          (id \in DOMAIN exec_active)
              ~> (id \in DOMAIN exec_active /\ exec_active[id].status = "rolled_back")

\* The monitor left a1 in place and its auto-expiry task rolled it back at
\* its deadline, the only time its baseline was restored.
C40_Witness ==
    /\ ret.op = "_auto_expire_action"
    /\ ret.action_id = "a1"
    /\ "a1" \in DOMAIN exec_active
    /\ exec_active["a1"].status = "rolled_back"
    /\ exec_active["a1"].rollback_reason = AutomaticExpiration
    /\ exec_active["a1"].rolled_back_at = exec_active["a1"].expires_at
    /\ restores["a1"] = 1
    /\ \A i \in 1..Len(sleepq) : sleepq[i].kind # "monitor"
    /\ ncalls = 2
    /\ now = 15

====
